---- MODULE Spec2Model ----
(***************************************************************************)
(* The tool-call gateway of typescript-server/src/server.ts: the           *)
(* CallToolRequestSchema handler with checkRateLimit, verifyAuth, the      *)
(* switch over tool names and the five tools, run on a single-threaded     *)
(* event loop where a handler is suspended at every await on I/O.          *)
(*                                                                         *)
(* Text is a sequence of chunks (TLC strings); a chunk is an indivisible   *)
(* run of characters, and includes / startsWith / replace work on chunks.  *)
(* The clock is Date.now() in milliseconds.                                *)
(***************************************************************************)
EXTENDS Integers, Sequences, FiniteSets, TLC

VARIABLES config, now, rateLimitStorage, files, dbLog, fetchLog, signLog,
          pending, last, callLog

vars == <<config, now, rateLimitStorage, files, dbLog, fetchLog, signLog,
          pending, last, callLog>>

(***************************************************************************)
(* Bounds of the model.                                                    *)
(***************************************************************************)
MaxQuota == 2
MaxWindow == 2
MaxTicks == 5
MaxSpecTicks == 1
MaxSpecWindow == 1
MaxSpecQuota == 1
MaxCalls == 2
MaxRateCalls == 5
MaxSlots == 2
TickMs == 500
MaxFileSize == 3
MaxServeCalls == 2
MaxLookupCalls == 2
MaxFileCalls == 2
MaxQueryCalls == 2
MaxScrapeCalls == 2
MaxContentLen == 3
MaxNegLength == 2
MaxTokenCalls == 2
SignificandBits == 3
MaxOperand == 6
MaxListCalls == 2
MaxRaceCalls == 2

(***************************************************************************)
(* Program constants.                                                      *)
(***************************************************************************)
MsPerSecond == 1000
TokenLifetime == 86400
MarkerLength == 14

(***************************************************************************)
(* Values: JSON values of tool arguments, tagged with their type.          *)
(***************************************************************************)
Undef == [t |-> "undefined", n |-> 0, s |-> <<>>]
Num(n) == [t |-> "number", n |-> n, s |-> <<>>]
Str(s) == [t |-> "string", n |-> 0, s |-> s]
Arr == [t |-> "array", n |-> 0, s |-> <<>>]

NoArgs == [noargs |-> Undef]
IsObject(args) == "noargs" \notin DOMAIN args
Get(args, k) == IF IsObject(args) /\ k \in DOMAIN args THEN args[k] ELSE Undef

(***************************************************************************)
(* Text helpers (String.prototype methods on chunk sequences).             *)
(***************************************************************************)
startsWith(s, p) == Len(p) <= Len(s) /\ SubSeq(s, 1, Len(p)) = p

includes(s, p) == \E i \in 0..(Len(s) - Len(p)) : SubSeq(s, i + 1, i + Len(p)) = p

FirstIndexOf(s, p) ==
    IF includes(s, p)
    THEN CHOOSE i \in 0..(Len(s) - Len(p)) :
            /\ SubSeq(s, i + 1, i + Len(p)) = p
            /\ \A j \in 0..(i - 1) : SubSeq(s, j + 1, j + Len(p)) # p
    ELSE -1

\* s.replace(p, ''): removes the first occurrence of p, wherever it is.
replaceFirst(s, p) ==
    LET i == FirstIndexOf(s, p)
    IN IF i < 0 THEN s
       ELSE SubSeq(s, 1, i) \o SubSeq(s, i + Len(p) + 1, Len(s))

(***************************************************************************)
(* Errors.                                                                 *)
(***************************************************************************)
McpError(code, message) == [cls |-> "McpError", code |-> code, message |-> message]
ZodError == [cls |-> "ZodError", code |-> "none", message |-> "invalid input"]
IoError(code) == [cls |-> "Error", code |-> code, message |-> "io"]

MsgRateLimit == "Rate limit exceeded. Please try again later."
MsgAuthRequired == "Authentication required"
MsgAuthInvalid == "Invalid authentication token"
MsgToolFailed == "Tool execution failed"

(***************************************************************************)
(* Configuration (ConfigSchema, loaded once).                              *)
(***************************************************************************)
JwtSecret == "your-secret-key-change-in-production"

Config(requireAuth, quota, window) ==
    [ allowedDomains     |-> << <<"example", ".", "com">> >>,
      maxFileSize        |-> MaxFileSize,
      rateLimitRequests  |-> quota,
      rateLimitWindow    |-> window,
      allowedDirectories |-> << <<"/", "tmp">> >>,
      jwtSecret          |-> JwtSecret,
      requireAuth        |-> requireAuth ]

(***************************************************************************)
(* JSON web tokens (jsonwebtoken's sign and verify, HS256).  A token is    *)
(* two chunks that decode to the payload and the key that signed it.       *)
(***************************************************************************)
Lit(c) == [lit |-> c]
Frag(tok, part) == [tok |-> tok, part |-> part]
Bearer == <<Lit("Bearer ")>>

Payload(username, iat, exp) == [username |-> username, iat |-> iat, exp |-> exp]

jwtSign(payload, secret) ==
    LET tok == [payload |-> payload, key |-> secret]
    IN <<Frag(tok, 1), Frag(tok, 2)>>

jwtWellFormed(token) ==
    /\ Len(token) = 2
    /\ "tok" \in DOMAIN token[1] /\ "tok" \in DOMAIN token[2]
    /\ token[1].part = 1 /\ token[2].part = 2
    /\ token[1].tok = token[2].tok

\* jwt.verify(token, secret): TRUE when it returns, FALSE when it throws.
jwtVerify(token, secret) ==
    /\ jwtWellFormed(token)
    /\ token[1].tok.key = secret
    /\ ~((now \div MsPerSecond) >= token[1].tok.payload.exp)

(***************************************************************************)
(* Security utilities.                                                     *)
(***************************************************************************)
NoHeader == [present |-> FALSE, str |-> <<>>]
Header(str) == [present |-> TRUE, str |-> str]

Returned(v) == [threw |-> FALSE, ret |-> v, err |-> McpError("none", "none")]
Threw(e) == [threw |-> TRUE, ret |-> FALSE, err |-> e]

verifyAuth(authHeader) ==
    IF ~config.requireAuth THEN Returned(TRUE)
    ELSE IF ~authHeader.present \/ authHeader.str = <<>>
         THEN Threw(McpError("InvalidRequest", MsgAuthRequired))
         ELSE IF jwtVerify(replaceFirst(authHeader.str, Bearer), config.jwtSecret)
              THEN Returned(TRUE)
              ELSE Threw(McpError("InvalidRequest", MsgAuthInvalid))

(***************************************************************************)
(* Rate limiting.                                                          *)
(***************************************************************************)
Put(m, k, v) == [x \in (DOMAIN m) \cup {k} |-> IF x = k THEN v ELSE m[x]]

\* Mutant: the window test is inclusive (now - timestamp <= window).
checkRateLimit_InclusiveWindow(clientId) ==
    LET clientRequests ==
            IF clientId \in DOMAIN rateLimitStorage
            THEN rateLimitStorage[clientId] ELSE <<>>
        inWindow(timestamp) ==
            now - timestamp <= config.rateLimitWindow * MsPerSecond
        validRequests == SelectSeq(clientRequests, inWindow)
    IN IF Len(validRequests) >= config.rateLimitRequests
       THEN [ret |-> FALSE, storage |-> rateLimitStorage]
       ELSE [ret |-> TRUE,
             storage |-> Put(rateLimitStorage, clientId, Append(validRequests, now))]

\* Mutant: the unfiltered list is written back.
checkRateLimit_NoPrune(clientId) ==
    LET clientRequests ==
            IF clientId \in DOMAIN rateLimitStorage
            THEN rateLimitStorage[clientId] ELSE <<>>
        inWindow(timestamp) ==
            now - timestamp < config.rateLimitWindow * MsPerSecond
        validRequests == SelectSeq(clientRequests, inWindow)
    IN IF Len(validRequests) >= config.rateLimitRequests
       THEN [ret |-> FALSE, storage |-> rateLimitStorage]
       ELSE [ret |-> TRUE,
             storage |-> Put(rateLimitStorage, clientId, Append(clientRequests, now))]

\* Mutant: the limit test is strict (length > quota).
checkRateLimit_OffByOne(clientId) ==
    LET clientRequests ==
            IF clientId \in DOMAIN rateLimitStorage
            THEN rateLimitStorage[clientId] ELSE <<>>
        inWindow(timestamp) ==
            now - timestamp < config.rateLimitWindow * MsPerSecond
        validRequests == SelectSeq(clientRequests, inWindow)
    IN IF Len(validRequests) > config.rateLimitRequests
       THEN [ret |-> FALSE, storage |-> rateLimitStorage]
       ELSE [ret |-> TRUE,
             storage |-> Put(rateLimitStorage, clientId, Append(validRequests, now))]

\* Mutant: a denied attempt is recorded too.
checkRateLimit_RecordsDenied(clientId) ==
    LET clientRequests ==
            IF clientId \in DOMAIN rateLimitStorage
            THEN rateLimitStorage[clientId] ELSE <<>>
        inWindow(timestamp) ==
            now - timestamp < config.rateLimitWindow * MsPerSecond
        validRequests == SelectSeq(clientRequests, inWindow)
    IN [ret |-> ~(Len(validRequests) >= config.rateLimitRequests),
        storage |-> Put(rateLimitStorage, clientId, Append(validRequests, now))]

\* Mutant: the list is updated in place but never stored back.
checkRateLimit_NoWriteBack(clientId) ==
    LET clientRequests ==
            IF clientId \in DOMAIN rateLimitStorage
            THEN rateLimitStorage[clientId] ELSE <<>>
        inWindow(timestamp) ==
            now - timestamp < config.rateLimitWindow * MsPerSecond
        validRequests == SelectSeq(clientRequests, inWindow)
    IN IF Len(validRequests) >= config.rateLimitRequests
       THEN [ret |-> FALSE, storage |-> rateLimitStorage]
       ELSE [ret |-> TRUE, storage |-> rateLimitStorage]

\* Mutant: the new timestamp is put in front of the list.
checkRateLimit_Prepend(clientId) ==
    LET clientRequests ==
            IF clientId \in DOMAIN rateLimitStorage
            THEN rateLimitStorage[clientId] ELSE <<>>
        inWindow(timestamp) ==
            now - timestamp < config.rateLimitWindow * MsPerSecond
        validRequests == SelectSeq(clientRequests, inWindow)
    IN IF Len(validRequests) >= config.rateLimitRequests
       THEN [ret |-> FALSE, storage |-> rateLimitStorage]
       ELSE [ret |-> TRUE,
             storage |-> Put(rateLimitStorage, clientId, <<now>> \o validRequests)]

checkRateLimit(clientId) ==
    LET clientRequests ==
            IF clientId \in DOMAIN rateLimitStorage
            THEN rateLimitStorage[clientId] ELSE <<>>
        inWindow(timestamp) ==
            now - timestamp < config.rateLimitWindow * MsPerSecond
        validRequests == SelectSeq(clientRequests, inWindow)
    IN IF Len(validRequests) >= config.rateLimitRequests
       THEN [ret |-> FALSE, storage |-> rateLimitStorage]
       ELSE [ret |-> TRUE,
             storage |-> Put(rateLimitStorage, clientId, Append(validRequests, now))]

(***************************************************************************)
(* Input schemas (Zod).  A field is described by its type, whether it may  *)
(* be absent, its enum (empty: none), a url check and a default.           *)
(***************************************************************************)
Field(type, optional, enum, url, default) ==
    [type |-> type, optional |-> optional, enum |-> enum, url |-> url,
     default |-> default]

WellFormedUrl(s) == Len(s) >= 2 /\ s[1] \in {"http://", "https://"}

FieldOk(f, v) ==
    IF v = Undef THEN f.optional \/ f.default # Undef
    ELSE /\ v.t = f.type
         /\ (f.enum # {} => v.s \in f.enum)
         /\ (f.url => WellFormedUrl(v.s))

CalculatorInputSchema ==
    [ operation |-> Field("string", FALSE,
                          {<<"add">>, <<"subtract">>, <<"multiply">>, <<"divide">>},
                          FALSE, Undef),
      a |-> Field("number", FALSE, {}, FALSE, Undef),
      b |-> Field("number", FALSE, {}, FALSE, Undef) ]

FileOperationInputSchema ==
    [ operation |-> Field("string", FALSE,
                          {<<"read">>, <<"write">>, <<"list">>, <<"delete">>},
                          FALSE, Undef),
      path    |-> Field("string", FALSE, {}, FALSE, Undef),
      content |-> Field("string", TRUE, {}, FALSE, Undef) ]

DatabaseQueryInputSchema ==
    [ query  |-> Field("string", FALSE, {}, FALSE, Undef),
      params |-> Field("array", FALSE, {}, FALSE, Arr) ]

WebScraperInputSchema ==
    [ url       |-> Field("string", FALSE, {}, TRUE, Undef),
      selector  |-> Field("string", TRUE, {}, FALSE, Undef),
      maxLength |-> Field("number", FALSE, {}, FALSE, Num(5000)) ]

AuthTokenInputSchema ==
    [ username |-> Field("string", FALSE, {}, FALSE, Undef) ]

\* Schema.parse(args): does it return (TRUE) or throw a ZodError (FALSE)?
parseOk(schema, args) ==
    /\ IsObject(args)
    /\ \A k \in DOMAIN schema : FieldOk(schema[k], Get(args, k))

\* The value Schema.parse(args) returns: known keys only, defaults filled in.
parse(schema, args) ==
    [k \in DOMAIN schema |->
        IF Get(args, k) = Undef THEN schema[k].default ELSE Get(args, k)]

(***************************************************************************)
(* What a tool has done when it returns control: thrown, returned its      *)
(* content, or stopped at an await on I/O (pc names the pending operation).*)
(***************************************************************************)
NoFrame == [input |-> <<>>, path |-> <<>>]

Throw(e, tr) ==
    [k |-> "throw", err |-> e, content |-> <<>>, pc |-> "idle",
     frame |-> NoFrame, signed |-> {}, trace |-> tr]

Return(c, tr, signed) ==
    [k |-> "return", err |-> McpError("none", "none"), content |-> c, pc |-> "idle",
     frame |-> NoFrame, signed |-> signed, trace |-> tr]

Await(pc, frame, tr) ==
    [k |-> "await", err |-> McpError("none", "none"), content |-> <<>>, pc |-> pc,
     frame |-> frame, signed |-> {}, trace |-> tr]

Text(t) == <<[type |-> "text", text |-> t]>>

(***************************************************************************)
(* calculator.  Numbers are exact rationals num/den in lowest terms.       *)
(***************************************************************************)
Abs(n) == IF n < 0 THEN -n ELSE n

RECURSIVE Gcd(_, _)
Gcd(a, b) == IF b = 0 THEN a ELSE Gcd(b, a % b)

Rat(n, d) ==
    LET g == Gcd(Abs(n), Abs(d))
        sgn == IF d < 0 THEN -1 ELSE 1
    IN [num |-> sgn * (n \div g), den |-> sgn * (d \div g)]

\* A JavaScript number is a binary floating-point number: the result of an
\* arithmetic operator is the exact result rounded to the nearest number with
\* a significand of SignificandBits bits (53 in the program), ties to even.
RECURSIVE Pow2(_)
Pow2(k) == IF k <= 0 THEN 1 ELSE 2 * Pow2(k - 1)

\* n/d scaled by powers of two until SignificandBits bits stand before the point.
RECURSIVE Scaled(_, _, _, _)
Scaled(n, d, up, down) ==
    IF n >= Pow2(SignificandBits) * d THEN Scaled(n, 2 * d, up + 1, down)
    ELSE IF n < Pow2(SignificandBits - 1) * d THEN Scaled(2 * n, d, up, down + 1)
    ELSE [n |-> n, d |-> d, up |-> up, down |-> down]

\* The quotient n/d rounded to the nearest integer, ties to the even one.
RoundedSignificand(n, d) ==
    LET m == n \div d
    IN IF 2 * (n - m * d) > d \/ (2 * (n - m * d) = d /\ m % 2 = 1) THEN m + 1 ELSE m

FromScaled(sc, sgn) ==
    Rat(sgn * RoundedSignificand(sc.n, sc.d) * Pow2(sc.up), Pow2(sc.down))

roundToNumber(n, d) ==
    IF n = 0 THEN Rat(0, 1)
    ELSE FromScaled(Scaled(Abs(n), Abs(d), 0, 0), IF (n < 0) # (d < 0) THEN -1 ELSE 1)

\* Mutant: subtract takes its operands in the other order.
operations_SubtractSwapped(operation, a, b) ==
    CASE operation = <<"add">>      -> Returned(roundToNumber(a + b, 1))
      [] operation = <<"subtract">> -> Returned(roundToNumber(b - a, 1))
      [] operation = <<"multiply">> -> Returned(roundToNumber(a * b, 1))
      [] operation = <<"divide">>   ->
            IF b = 0
            THEN Threw(McpError("InvalidRequest", "Division by zero is not allowed"))
            ELSE Returned(roundToNumber(a, b))

operations(operation, a, b) ==
    CASE operation = <<"add">>      -> Returned(roundToNumber(a + b, 1))
      [] operation = <<"subtract">> -> Returned(roundToNumber(a - b, 1))
      [] operation = <<"multiply">> -> Returned(roundToNumber(a * b, 1))
      [] operation = <<"divide">>   ->
            IF b = 0
            THEN Threw(McpError("InvalidRequest", "Division by zero is not allowed"))
            ELSE Returned(roundToNumber(a, b))

calculatorTool(args) ==
    IF ~parseOk(CalculatorInputSchema, args)
    THEN Throw(ZodError, <<"validate">>)
    ELSE LET input == parse(CalculatorInputSchema, args)
             result == operations(input.operation.s, input.a.n, input.b.n)
         IN IF result.threw
            THEN Throw(result.err, <<"validate", "handler">>)
            ELSE Return(Text([tmpl |-> "Result", a |-> input.a.n,
                              operation |-> input.operation.s, b |-> input.b.n,
                              result |-> result.ret]),
                        <<"validate", "handler">>, {})

(***************************************************************************)
(* generate_auth_token.                                                    *)
(***************************************************************************)
\* The payload reads the clock twice: Date.now() for exp, then Date.now() for
\* iat.  expClock and iatClock are the two readings, in milliseconds.
generateAuthTokenToolAt(args, expClock, iatClock) ==
    IF ~parseOk(AuthTokenInputSchema, args)
    THEN Throw(ZodError, <<"validate">>)
    ELSE LET input == parse(AuthTokenInputSchema, args)
             payload == Payload(input.username.s,
                                iatClock \div MsPerSecond,
                                (expClock \div MsPerSecond) + TokenLifetime)
             token == jwtSign(payload, config.jwtSecret)
         IN Return(Text([tmpl |-> "Generated JWT token", username |-> input.username.s,
                         token |-> token]),
                   <<"validate", "handler", "jwt.sign">>, {token})

\* Inside the request handler the two readings are taken at the same instant.
generateAuthTokenTool(args) == generateAuthTokenToolAt(args, now, now)

(***************************************************************************)
(* Paths: path.resolve on chunk sequences, "/" being a chunk of its own.   *)
(***************************************************************************)
Cwd == <<"/", "app">>

RECURSIVE Segments(_)
Segments(p) ==
    IF p = <<>> THEN << <<>> >>
    ELSE LET rest == Segments(Tail(p))
         IN IF Head(p) = "/" THEN << <<>> >> \o rest
            ELSE << <<Head(p)>> \o Head(rest) >> \o Tail(rest)

RECURSIVE Normalize(_, _)
Normalize(segs, stack) ==
    IF segs = <<>> THEN stack
    ELSE LET seg == Head(segs)
         IN IF seg = <<>> \/ seg = <<".">> THEN Normalize(Tail(segs), stack)
            ELSE IF seg = <<"..">>
                 THEN Normalize(Tail(segs),
                                IF stack = <<>> THEN stack
                                ELSE SubSeq(stack, 1, Len(stack) - 1))
                 ELSE Normalize(Tail(segs), Append(stack, seg))

RECURSIVE Join(_)
Join(segs) ==
    IF segs = <<>> THEN <<>> ELSE <<"/">> \o Head(segs) \o Join(Tail(segs))

resolve(p) ==
    LET abs == IF p # <<>> /\ Head(p) = "/" THEN p ELSE Cwd \o <<"/">> \o p
        segs == Normalize(Segments(abs), <<>>)
    IN IF segs = <<>> THEN <<"/">> ELSE Join(segs)

\* Mutant: every absolute path is allowed.
isAllowed_AnyAbsolute(resolvedPath) == startsWith(resolvedPath, <<"/">>)

isAllowed(resolvedPath) ==
    \E i \in 1..Len(config.allowedDirectories) :
        startsWith(resolvedPath, resolve(config.allowedDirectories[i]))

(***************************************************************************)
(* file_operations, up to its first await.                                 *)
(***************************************************************************)
MsgAccessDenied == "Access denied: Path not in allowed directories"
MsgFileTooLarge == "File too large"
MsgContentRequired == "Content required for write operation"
MsgFileFailed == "File operation failed"

fileOperationsTool(args) ==
    IF ~parseOk(FileOperationInputSchema, args)
    THEN Throw(ZodError, <<"validate">>)
    ELSE LET input == parse(FileOperationInputSchema, args)
             resolvedPath == resolve(input.path.s)
             frame == [input |-> input, path |-> resolvedPath]
             tr == <<"validate", "handler">>
         IN IF ~isAllowed(resolvedPath)
            THEN Throw(McpError("InvalidRequest", MsgAccessDenied), tr)
            ELSE CASE input.operation.s = <<"read">> -> Await("fs.stat", frame, tr)
                   [] input.operation.s = <<"write">> ->
                        IF input.content = Undef \/ input.content.s = <<>>
                        THEN Throw(McpError("InvalidRequest", MsgContentRequired), tr)
                        ELSE Await("fs.writeFile", frame, tr)
                   [] input.operation.s = <<"list">> -> Await("fs.readdir", frame, tr)
                   [] input.operation.s = <<"delete">> -> Await("fs.unlink", frame, tr)

(***************************************************************************)
(* database_query, up to the call of database.all.                         *)
(***************************************************************************)
LowerMap ==
    [SELECT |-> "select", DROP |-> "drop", Select |-> "select", Drop |-> "drop",
     EXAMPLE |-> "example", COM |-> "com", EXEC |-> "exec", Update |-> "update",
     Example |-> "example", EVIL |-> "evil"]

toLowerCase(s) == [i \in 1..Len(s) |-> IF s[i] \in DOMAIN LowerMap THEN LowerMap[s[i]] ELSE s[i]]

WhiteSpace == {" ", "\t", "\n"}

RECURSIVE trimStart(_)
trimStart(s) == IF s # <<>> /\ Head(s) \in WhiteSpace THEN trimStart(Tail(s)) ELSE s

RECURSIVE trimEnd(_)
trimEnd(s) ==
    IF s # <<>> /\ s[Len(s)] \in WhiteSpace THEN trimEnd(SubSeq(s, 1, Len(s) - 1)) ELSE s

trim(s) == trimEnd(trimStart(s))

dangerousKeywords ==
    <<"insert", "update", "delete", "drop", "create", "alter", "exec">>

MsgOnlySelect == "Only SELECT queries are allowed"
MsgProhibited == "Query contains prohibited keywords"
MsgDatabase == "Database error"

\* Mutant: a query that starts with select is run whatever else it holds.
databaseQueryTool_NoDenylist(args) ==
    IF ~parseOk(DatabaseQueryInputSchema, args)
    THEN Throw(ZodError, <<"validate">>)
    ELSE LET input == parse(DatabaseQueryInputSchema, args)
             queryLower == trim(toLowerCase(input.query.s))
             tr == <<"validate", "handler">>
         IN IF ~startsWith(queryLower, <<"select">>)
            THEN Throw(McpError("InvalidRequest", MsgOnlySelect), tr)
            ELSE Await("database.all", [input |-> input, path |-> <<>>], tr)

databaseQueryTool(args) ==
    IF ~parseOk(DatabaseQueryInputSchema, args)
    THEN Throw(ZodError, <<"validate">>)
    ELSE LET input == parse(DatabaseQueryInputSchema, args)
             queryLower == trim(toLowerCase(input.query.s))
             tr == <<"validate", "handler">>
         IN IF ~startsWith(queryLower, <<"select">>)
            THEN Throw(McpError("InvalidRequest", MsgOnlySelect), tr)
            ELSE IF \E i \in 1..Len(dangerousKeywords) :
                        includes(queryLower, <<dangerousKeywords[i]>>)
                 THEN Throw(McpError("InvalidRequest", MsgProhibited), tr)
                 ELSE Await("database.all", [input |-> input, path |-> <<>>], tr)

(***************************************************************************)
(* web_scraper, up to the call of axios.get.                               *)
(***************************************************************************)
\* new URL(url).hostname: of the chunks after the scheme, the authority ends
\* at the path, query or fragment; the host follows the last "@" (userinfo)
\* and ends at ":" (port); it is lower-cased.
RECURSIVE UpToSlash(_)
UpToSlash(s) ==
    IF s = <<>> \/ Head(s) \in {"/", "?", "#"} THEN <<>>
    ELSE <<Head(s)>> \o UpToSlash(Tail(s))

RECURSIVE AfterUserinfo(_)
AfterUserinfo(s) ==
    IF \E i \in 1..Len(s) : s[i] = "@"
    THEN AfterUserinfo(Tail(s))
    ELSE s

RECURSIVE BeforePort(_)
BeforePort(s) ==
    IF s = <<>> \/ Head(s) = ":" THEN <<>> ELSE <<Head(s)>> \o BeforePort(Tail(s))

hostname(url) == toLowerCase(BeforePort(AfterUserinfo(UpToSlash(Tail(url)))))

MsgDomain == "Domain not allowed"
MsgScraping == "Scraping failed"

\* Mutant: the allowed domain is looked for in the whole URL.
webScraperTool_WholeUrl(args) ==
    IF ~parseOk(WebScraperInputSchema, args)
    THEN Throw(ZodError, <<"validate">>)
    ELSE LET input == parse(WebScraperInputSchema, args)
             tr == <<"validate", "handler">>
         IN IF ~\E i \in 1..Len(config.allowedDomains) :
                    includes(toLowerCase(input.url.s), config.allowedDomains[i])
            THEN Throw(McpError("InvalidRequest", MsgDomain), tr)
            ELSE Await("axios.get", [input |-> input, path |-> <<>>], tr)

webScraperTool(args) ==
    IF ~parseOk(WebScraperInputSchema, args)
    THEN Throw(ZodError, <<"validate">>)
    ELSE LET input == parse(WebScraperInputSchema, args)
             domain == toLowerCase(hostname(input.url.s))
             tr == <<"validate", "handler">>
         IN IF ~\E i \in 1..Len(config.allowedDomains) :
                    includes(domain, config.allowedDomains[i])
            THEN Throw(McpError("InvalidRequest", MsgDomain), tr)
            ELSE Await("axios.get", [input |-> input, path |-> <<>>], tr)

(***************************************************************************)
(* The tools the server lists (ListToolsRequestSchema handler).            *)
(***************************************************************************)
ToolList ==
    <<"calculator", "file_operations", "database_query", "web_scraper",
      "generate_auth_token">>

(***************************************************************************)
(* The CallToolRequestSchema handler, up to its first await.               *)
(***************************************************************************)
\* Mutant: the catch rethrows whatever it caught.
catchTool_Rethrow(error) == error

\* Mutant: the catch wraps every error, typed or not.
catchTool_WrapAll(error) == McpError("InternalError", MsgToolFailed)

\* catch (error): an McpError is rethrown, anything else becomes InternalError.
catchTool(error) ==
    IF error.cls = "McpError" THEN error ELSE McpError("InternalError", MsgToolFailed)

\* Mutant: a name the switch does not know runs the calculator.
dispatch_DefaultCalculator(name, args) == calculatorTool(args)

\* Mutant: the switch has no case for the token tool.
dispatch_NoTokenTool(name, args) ==
    CASE name = "calculator"          -> calculatorTool(args)
      [] name = "file_operations"     -> fileOperationsTool(args)
      [] name = "database_query"      -> databaseQueryTool(args)
      [] name = "web_scraper"         -> webScraperTool(args)
      [] OTHER -> Throw(McpError("MethodNotFound", "Unknown tool"), <<>>)

\* switch (name)
dispatch(name, args) ==
    CASE name = "calculator"          -> calculatorTool(args)
      [] name = "file_operations"     -> fileOperationsTool(args)
      [] name = "database_query"      -> databaseQueryTool(args)
      [] name = "web_scraper"         -> webScraperTool(args)
      [] name = "generate_auth_token" -> generateAuthTokenTool(args)
      [] OTHER -> Throw(McpError("MethodNotFound", "Unknown tool"), <<>>)

\* Mutant: authentication is checked before the rate limit.
handleCallTool_AuthFirst(request) ==
    LET au == verifyAuth(NoHeader)
    IN IF au.threw
       THEN [storage |-> rateLimitStorage, checked |-> FALSE, admitted |-> FALSE,
             res |-> Throw(au.err, <<"verifyAuth">>)]
       ELSE LET rl == checkRateLimit("default")
            IN IF ~rl.ret
               THEN [storage |-> rl.storage, checked |-> TRUE, admitted |-> FALSE,
                     res |-> Throw(McpError("InvalidRequest", MsgRateLimit),
                                   <<"verifyAuth", "checkRateLimit">>)]
               ELSE LET r == dispatch(request.name, request.args)
                    IN [storage |-> rl.storage, checked |-> TRUE, admitted |-> TRUE,
                        res |-> [r EXCEPT
                                   !.trace = <<"verifyAuth", "checkRateLimit", "lookup">> \o @,
                                   !.err = IF r.k = "throw" THEN catchTool(@) ELSE @]]

\* Mutant: authentication is checked after the tool has run.
handleCallTool_AuthAfterTool(request) ==
    LET rl == checkRateLimit("default")
    IN IF ~rl.ret
       THEN [storage |-> rl.storage, checked |-> TRUE, admitted |-> FALSE,
             res |-> Throw(McpError("InvalidRequest", MsgRateLimit),
                           <<"checkRateLimit">>)]
       ELSE LET r == dispatch(request.name, request.args)
                au == verifyAuth(NoHeader)
                tr == <<"checkRateLimit", "lookup">> \o r.trace \o <<"verifyAuth">>
            IN [storage |-> rl.storage, checked |-> TRUE, admitted |-> TRUE,
                res |-> IF au.threw /\ r.k # "await"
                        THEN [Throw(au.err, tr) EXCEPT !.signed = r.signed]
                        ELSE [r EXCEPT
                                !.trace = tr,
                                !.err = IF r.k = "throw" THEN catchTool(@) ELSE @]]

\* Mutant: a call that ends in an error gives its slot back.
handleCallTool_RefundOnError(request) ==
    LET rl == checkRateLimit("default")
    IN IF ~rl.ret
       THEN [storage |-> rl.storage, checked |-> TRUE, admitted |-> FALSE,
             res |-> Throw(McpError("InvalidRequest", MsgRateLimit),
                           <<"checkRateLimit">>)]
       ELSE LET au == verifyAuth(NoHeader)
            IN IF au.threw
               THEN [storage |-> rateLimitStorage, checked |-> TRUE, admitted |-> TRUE,
                     res |-> Throw(au.err, <<"checkRateLimit", "verifyAuth">>)]
               ELSE LET r == dispatch(request.name, request.args)
                    IN [storage |-> IF r.k = "throw" THEN rateLimitStorage ELSE rl.storage,
                        checked |-> TRUE, admitted |-> TRUE,
                        res |-> [r EXCEPT
                                   !.trace = <<"checkRateLimit", "verifyAuth", "lookup">> \o @,
                                   !.err = IF r.k = "throw" THEN catchTool(@) ELSE @]]

\* The handler reads request.params only: the credential the transport
\* carries is not passed on, and verifyAuth is called without an argument.
handleCallTool(request) ==
    LET rl == checkRateLimit("default")
    IN IF ~rl.ret
       THEN [storage |-> rl.storage, checked |-> TRUE, admitted |-> FALSE,
             res |-> Throw(McpError("InvalidRequest", MsgRateLimit),
                           <<"checkRateLimit">>)]
       ELSE LET au == verifyAuth(NoHeader)
            IN IF au.threw
               THEN [storage |-> rl.storage, checked |-> TRUE, admitted |-> TRUE,
                     res |-> Throw(au.err, <<"checkRateLimit", "verifyAuth">>)]
               ELSE LET r == dispatch(request.name, request.args)
                    IN [storage |-> rl.storage, checked |-> TRUE, admitted |-> TRUE,
                        res |-> [r EXCEPT
                                   !.trace = <<"checkRateLimit", "verifyAuth", "lookup">> \o @,
                                   !.err = IF r.k = "throw" THEN catchTool(@) ELSE @]]

(***************************************************************************)
(* State: in-flight calls, the latest response, the file system.           *)
(***************************************************************************)
Slots == 1..MaxSlots
Idle == [pc |-> "idle"]
Quiet == [ev |-> "none"]

Ok(content) == [ok |-> TRUE, content |-> content, error |-> McpError("none", "none")]
Fail(e) == [ok |-> FALSE, content |-> <<>>, error |-> e]

\* call: the index in callLog of the rate-limit check this call went through.
Response(s, call, req, tr, out) ==
    [ev |-> "response", slot |-> s, call |-> call, req |-> req, trace |-> tr,
     out |-> out]

PTmp == <<"/", "tmp">>
PA == <<"/", "tmp", "/", "a">>
PEtc == <<"/", "etc">>
PE == <<"/", "etc", "/", "p">>
PXdir == <<"/", "tmp", "evil">>
PX == <<"/", "tmp", "evil", "/", "a">>
FsPaths == {PTmp, PA, PEtc, PE, PXdir, PX}

\* fs.writeFile(path, data, 'utf-8') and fs.readFile(path, 'utf-8'): a file
\* holds bytes.  A character below U+0080 is one byte (written as itself),
\* U+00E9 is two bytes, U+FFFD is three, and an unpaired surrogate (U+D800)
\* is encoded as U+FFFD.
utf8EncodeChar(c) ==
    CASE c = "U+00E9" -> <<"C3", "A9">>
      [] c \in {"U+D800", "U+FFFD"} -> <<"EF", "BF", "BD">>
      [] OTHER -> <<c>>

RECURSIVE utf8Encode(_)
utf8Encode(str) ==
    IF str = <<>> THEN <<>> ELSE utf8EncodeChar(Head(str)) \o utf8Encode(Tail(str))

RECURSIVE utf8Decode(_)
utf8Decode(bytes) ==
    IF bytes = <<>> THEN <<>>
    ELSE IF Len(bytes) >= 2 /\ SubSeq(bytes, 1, 2) = <<"C3", "A9">>
         THEN <<"U+00E9">> \o utf8Decode(SubSeq(bytes, 3, Len(bytes)))
         ELSE IF Len(bytes) >= 3 /\ SubSeq(bytes, 1, 3) = <<"EF", "BF", "BD">>
              THEN <<"U+FFFD">> \o utf8Decode(SubSeq(bytes, 4, Len(bytes)))
              ELSE <<Head(bytes)>> \o utf8Decode(Tail(bytes))

\* A directory entry: its kind, its bytes (stats.size is their number) and,
\* as history, the string the last fs.writeFile on it was given.
NoEnt == [kind |-> "none", content |-> <<>>, src |-> <<>>]
Dir == [kind |-> "dir", content |-> <<>>, src |-> <<>>]
File(c) == [kind |-> "file", content |-> utf8Encode(c), src |-> c]

Small == <<"x">>
Big == [i \in 1..(MaxFileSize + 1) |-> "x"]

Entry(p) == IF p \in DOMAIN files THEN files[p] ELSE NoEnt
Parent(p) == resolve(p \o <<"/", "..">>)
Children(p) == {q \in DOMAIN files : files[q].kind # "none" /\ q # p /\ Parent(q) = p}

CallTool(s, req, limit) ==
    /\ pending[s] = Idle
    /\ Len(callLog) < limit
    /\ LET h == handleCallTool(req)
       IN /\ rateLimitStorage' = h.storage
          /\ callLog' = IF h.checked
                        THEN Append(callLog,
                                    [t |-> now, admitted |-> h.admitted,
                                     overlap |-> \E o \in Slots : pending[o] # Idle])
                        ELSE callLog
          /\ signLog' = signLog \cup h.res.signed
          /\ IF h.res.k = "await"
             THEN /\ pending' = [pending EXCEPT ![s] =
                                    [pc |-> h.res.pc, call |-> Len(callLog'),
                                     req |-> req, frame |-> h.res.frame,
                                     trace |-> h.res.trace]]
                  /\ last' = Quiet
             ELSE /\ last' = Response(s, Len(callLog'), req, h.res.trace,
                                       IF h.res.k = "throw" THEN Fail(h.res.err)
                                       ELSE Ok(h.res.content))
                  /\ UNCHANGED pending
    /\ UNCHANGED <<config, now, files, dbLog, fetchLog>>

Tick(maxTicks) ==
    /\ now < maxTicks * TickMs
    /\ now' = now + TickMs
    /\ last' = Quiet
    /\ UNCHANGED <<config, rateLimitStorage, files, dbLog, fetchLog, signLog,
                   pending, callLog>>

(***************************************************************************)
(* Resumption of a suspended call: the awaited I/O completes.              *)
(***************************************************************************)
\* fileOperationsTool's catch: an McpError is rethrown, the rest is wrapped.
fileCatch(error) ==
    IF error.cls = "McpError" THEN error ELSE McpError("InternalError", MsgFileFailed)

Complete(s, tr, out) ==
    /\ last' = Response(s, pending[s].call, pending[s].req, tr, out)
    /\ pending' = [pending EXCEPT ![s] = Idle]

\* Mutant: the size fs.stat reports is not compared with maxFileSize.
FsStat_NoLimit(s) ==
    /\ pending[s].pc = "fs.stat"
    /\ LET e == Entry(pending[s].frame.path)
           tr == Append(pending[s].trace, "fs.stat")
       IN IF e.kind = "none"
          THEN Complete(s, tr, Fail(catchTool(fileCatch(IoError("ENOENT")))))
          ELSE /\ pending' = [pending EXCEPT ![s].pc = "fs.readFile", ![s].trace = tr]
               /\ last' = Quiet
    /\ UNCHANGED <<config, now, rateLimitStorage, files, dbLog, fetchLog, signLog,
                   callLog>>

FsStat(s) ==
    /\ pending[s].pc = "fs.stat"
    /\ LET e == Entry(pending[s].frame.path)
           tr == Append(pending[s].trace, "fs.stat")
       IN IF e.kind = "none"
          THEN Complete(s, tr, Fail(catchTool(fileCatch(IoError("ENOENT")))))
          ELSE IF Len(e.content) > config.maxFileSize
               THEN Complete(s, tr, Fail(catchTool(fileCatch(
                        McpError("InvalidRequest", MsgFileTooLarge)))))
               ELSE /\ pending' = [pending EXCEPT ![s].pc = "fs.readFile",
                                                  ![s].trace = tr]
                    /\ last' = Quiet
    /\ UNCHANGED <<config, now, rateLimitStorage, files, dbLog, fetchLog, signLog,
                   callLog>>

FsReadFile(s) ==
    /\ pending[s].pc = "fs.readFile"
    /\ LET e == Entry(pending[s].frame.path)
           tr == Append(pending[s].trace, "fs.readFile")
       IN CASE e.kind = "none" ->
                 Complete(s, tr, Fail(catchTool(fileCatch(IoError("ENOENT")))))
            [] e.kind = "dir" ->
                 Complete(s, tr, Fail(catchTool(fileCatch(IoError("EISDIR")))))
            [] e.kind = "file" ->
                 Complete(s, tr, Ok(Text([tmpl |-> "File content",
                                          content |-> utf8Decode(e.content)])))
    /\ UNCHANGED <<config, now, rateLimitStorage, files, dbLog, fetchLog, signLog,
                   callLog>>

FsWriteFile(s) ==
    /\ pending[s].pc = "fs.writeFile"
    /\ LET p == pending[s].frame.path
           content == pending[s].frame.input.content.s
           tr == Append(pending[s].trace, "fs.writeFile")
       IN CASE Entry(p).kind = "dir" ->
                 /\ Complete(s, tr, Fail(catchTool(fileCatch(IoError("EISDIR")))))
                 /\ UNCHANGED files
            [] Entry(p).kind # "dir" /\ (p \notin DOMAIN files \/ Entry(Parent(p)).kind # "dir") ->
                 /\ Complete(s, tr, Fail(catchTool(fileCatch(IoError("ENOENT")))))
                 /\ UNCHANGED files
            [] OTHER ->
                 /\ files' = [files EXCEPT ![p] = File(content)]
                 /\ Complete(s, tr, Ok(Text([tmpl |-> "Successfully wrote",
                                             length |-> Len(content), path |-> p])))
    /\ UNCHANGED <<config, now, rateLimitStorage, dbLog, fetchLog, signLog, callLog>>

FsReaddir(s) ==
    /\ pending[s].pc = "fs.readdir"
    /\ LET p == pending[s].frame.path
           tr == Append(pending[s].trace, "fs.readdir")
       IN CASE Entry(p).kind = "none" ->
                 Complete(s, tr, Fail(catchTool(fileCatch(IoError("ENOENT")))))
            [] Entry(p).kind = "file" ->
                 Complete(s, tr, Fail(catchTool(fileCatch(IoError("ENOTDIR")))))
            [] Entry(p).kind = "dir" ->
                 Complete(s, tr, Ok(Text([tmpl |-> "Directory contents",
                                          entries |-> Children(p)])))
    /\ UNCHANGED <<config, now, rateLimitStorage, files, dbLog, fetchLog, signLog,
                   callLog>>

FsUnlink(s) ==
    /\ pending[s].pc = "fs.unlink"
    /\ LET p == pending[s].frame.path
           tr == Append(pending[s].trace, "fs.unlink")
       IN CASE Entry(p).kind = "none" ->
                 /\ Complete(s, tr, Fail(catchTool(fileCatch(IoError("ENOENT")))))
                 /\ UNCHANGED files
            [] Entry(p).kind = "dir" ->
                 /\ Complete(s, tr, Fail(catchTool(fileCatch(IoError("EISDIR")))))
                 /\ UNCHANGED files
            [] Entry(p).kind = "file" ->
                 /\ files' = [files EXCEPT ![p] = NoEnt]
                 /\ Complete(s, tr, Ok(Text([tmpl |-> "Successfully deleted",
                                             path |-> p])))
    /\ UNCHANGED <<config, now, rateLimitStorage, dbLog, fetchLog, signLog, callLog>>

\* database.all(query, params, callback): sqlite runs the query and calls back
\* with an error, with no rows or with rows.
DatabaseAll(s) ==
    /\ pending[s].pc = "database.all"
    /\ LET query == pending[s].frame.input.query.s
           tr == Append(pending[s].trace, "database.all")
       IN /\ dbLog' = dbLog \cup {query}
          /\ \E r \in {"error", "empty", "rows"} :
                CASE r = "error" ->
                       Complete(s, tr, Fail(catchTool(McpError("InternalError", MsgDatabase))))
                  [] r = "empty" ->
                       Complete(s, tr, Ok(Text([tmpl |-> "No results found"])))
                  [] r = "rows" ->
                       Complete(s, tr, Ok(Text([tmpl |-> "Query results"])))
    /\ UNCHANGED <<config, now, rateLimitStorage, files, fetchLog, signLog, callLog>>

TruncationMarker == <<"...[truncated]">>

\* content.substring(0, n)
substring0(content, n) ==
    IF n <= 0 THEN <<>> ELSE IF n >= Len(content) THEN content ELSE SubSeq(content, 1, n)

\* Mutant: content of exactly maxLength characters is cut as well.
limitContent_Inclusive(content, maxLength) ==
    IF Len(content) >= maxLength
    THEN substring0(content, maxLength) \o TruncationMarker
    ELSE content

limitContent(content, maxLength) ==
    IF Len(content) > maxLength
    THEN substring0(content, maxLength) \o TruncationMarker
    ELSE content

Bodies == {<<>>, <<"a", "b", "c">>}

\* axios.get(url, {timeout}) settles: it fails (network error, timeout), or
\* the text extracted from the response body is cut to maxLength.
AxiosGet(s) ==
    /\ pending[s].pc = "axios.get"
    /\ LET input == pending[s].frame.input
           tr == Append(pending[s].trace, "axios.get")
       IN /\ fetchLog' = fetchLog \cup {input.url.s}
          /\ \/ Complete(s, tr, Fail(catchTool(McpError("InternalError", MsgScraping))))
             \/ \E body \in Bodies :
                   Complete(s, tr, Ok(Text([tmpl |-> "Scraped content",
                                            url |-> input.url.s,
                                            content |-> limitContent(body, input.maxLength.n)])))
    /\ UNCHANGED <<config, now, rateLimitStorage, files, dbLog, signLog, callLog>>

(***************************************************************************)
(* Requests the callers send.                                              *)
(***************************************************************************)
Request(name, args, cred) == [name |-> name, args |-> args, cred |-> cred]

GoodToken == jwtSign(Payload(<<"demo_user">>, 0, TokenLifetime), JwtSecret)
GoodCred == Header(Bearer \o GoodToken)

CalcAdd == [operation |-> Str(<<"add">>), a |-> Num(2), b |-> Num(3)]
CalcDivZero == [operation |-> Str(<<"divide">>), a |-> Num(1), b |-> Num(0)]
CalcPower == [operation |-> Str(<<"power">>), a |-> Num(2), b |-> Num(3)]
CalcMissingB == [operation |-> Str(<<"add">>), a |-> Num(5)]
CalcFive == [operation |-> Str(<<"add">>), a |-> Str(<<"five">>), b |-> Num(3)]

FileWrite == [operation |-> Str(<<"write">>), path |-> Str(PA), content |-> Str(Small)]
FileRead == [operation |-> Str(<<"read">>), path |-> Str(PA)]
FileDelete == [operation |-> Str(<<"delete">>), path |-> Str(PA)]
FileList == [operation |-> Str(<<"list">>), path |-> Str(PTmp)]
FileReadOutside == [operation |-> Str(<<"read">>), path |-> Str(PE)]
FileBadOp == [operation |-> Str(<<"chmod">>), path |-> Str(PA)]
FileWriteNoPath == [operation |-> Str(<<"write">>), content |-> Str(Small)]

QuerySelect == [query |-> Str(<<"select", " ", "*", " ", "from", " ", "users">>)]
QueryDrop == [query |-> Str(<<"select", " ", "1", ";", " ", "drop", " ", "table", " ", "users">>)]
QueryNumber == [query |-> Num(1)]

UrlGood == <<"https://", "example", ".", "com", "/">>
UrlEvil == <<"https://", "evil", ".", "com", "/">>
ScrapeGood == [url |-> Str(UrlGood), maxLength |-> Num(2)]
ScrapeEvil == [url |-> Str(UrlEvil)]
ScrapeNotUrl == [url |-> Str(<<"not a url">>)]

TokenArgs == [username |-> Str(<<"demo_user">>)]

Requests ==
    { Request("calculator", a, NoHeader) :
        a \in {CalcAdd, CalcDivZero, CalcPower, CalcMissingB, CalcFive, NoArgs} }
    \cup { Request("file_operations", a, NoHeader) :
        a \in {FileWrite, FileRead, FileDelete, FileList, FileReadOutside,
               FileBadOp, FileWriteNoPath} }
    \cup { Request("database_query", a, NoHeader) :
        a \in {QuerySelect, QueryDrop, QueryNumber} }
    \cup { Request("web_scraper", a, NoHeader) :
        a \in {ScrapeGood, ScrapeEvil, ScrapeNotUrl} }
    \cup { Request("generate_auth_token", a, NoHeader) : a \in {TokenArgs, NoArgs} }
    \cup { Request("no_such_tool", CalcAdd, NoHeader) }
    \cup { Request(n, CalcAdd, GoodCred) : n \in {"calculator", "no_such_tool"} }

RateRequest == Request("calculator", CalcAdd, NoHeader)

(***************************************************************************)
(* The server after start-up.                                              *)
(***************************************************************************)
InitFiles ==
    [p \in FsPaths |->
        CASE p \in {PTmp, PEtc, PXdir} -> Dir
          [] p = PE -> File(<<"s">>)
          [] OTHER -> NoEnt]

InitWith(cfg) ==
    /\ config = cfg
    /\ now = 0
    /\ rateLimitStorage = [c \in {} |-> <<>>]
    /\ files = InitFiles
    /\ dbLog = {}
    /\ fetchLog = {}
    /\ signLog = {}
    /\ pending = [s \in Slots |-> Idle]
    /\ last = Quiet
    /\ callLog = <<>>

Init ==
    \E ra \in BOOLEAN, q \in 0..MaxSpecQuota, w \in 0..MaxSpecWindow : InitWith(Config(ra, q, w))

LowestIdle(s) == \A o \in Slots : o < s => pending[o] # Idle

Next ==
    \/ \E s \in Slots, req \in Requests : LowestIdle(s) /\ CallTool(s, req, MaxCalls)
    \/ \E s \in Slots : FsStat(s)
    \/ \E s \in Slots : FsReadFile(s)
    \/ \E s \in Slots : FsWriteFile(s)
    \/ \E s \in Slots : FsReaddir(s)
    \/ \E s \in Slots : FsUnlink(s)
    \/ \E s \in Slots : DatabaseAll(s)
    \/ \E s \in Slots : AxiosGet(s)
    \/ Tick(MaxSpecTicks)

Spec == Init /\ [][Next]_vars

(***************************************************************************)
(* The rate limiter on its own: one caller repeating one cheap call under  *)
(* every quota and window, over a longer stretch of time.                  *)
(***************************************************************************)
InitRate ==
    \E ra \in BOOLEAN, q \in 0..MaxQuota, w \in 0..MaxWindow :
        InitWith(Config(ra, q, w))

NextRate ==
    \/ CallTool(1, RateRequest, MaxRateCalls)
    \/ Tick(MaxTicks)

SpecRate == InitRate /\ [][NextRate]_vars

(***************************************************************************)
(* verifyAuth applied to the credentials a transport could hand it.        *)
(***************************************************************************)
ExpiringToken == jwtSign(Payload(<<"demo_user">>, 1 - TokenLifetime, 1), JwtSecret)
ForgedToken == jwtSign(Payload(<<"demo_user">>, 0, TokenLifetime), "another-secret")

AuthHeaders ==
    { NoHeader,
      Header(<<>>),
      Header(Bearer \o GoodToken),
      Header(GoodToken),
      Header(Bearer \o ExpiringToken),
      Header(Bearer \o ForgedToken),
      Header(<<GoodToken[1]>> \o Bearer \o <<GoodToken[2]>>),
      Header(Bearer),
      Header(Bearer \o Bearer \o GoodToken),
      Header(<<Lit("bearer ")>> \o GoodToken),
      Header(<<Lit("garbage")>>) }

VerifyAuthCall(authHeader) ==
    /\ last' = [ev |-> "verifyAuth", authHeader |-> authHeader,
                res |-> verifyAuth(authHeader)]
    /\ UNCHANGED <<config, now, rateLimitStorage, files, dbLog, fetchLog, signLog,
                   pending, callLog>>

InitAuth == \E ra \in BOOLEAN : InitWith(Config(ra, MaxQuota, MaxWindow))

NextAuth ==
    \/ \E h \in AuthHeaders : VerifyAuthCall(h)
    \/ Tick(MaxTicks)

SpecAuth == InitAuth /\ [][NextAuth]_vars

(***************************************************************************)
(* Vocabulary of the properties.                                           *)
(***************************************************************************)
StoredIn(m) == IF "default" \in DOMAIN m THEN m["default"] ELSE <<>>
Stored == StoredIn(rateLimitStorage)
WindowMs == config.rateLimitWindow * MsPerSecond
Quota == config.rateLimitRequests

\* Earlier admitted calls, and those of them still inside the window of call i.
AdmittedBefore(i) == {j \in 1..(i - 1) : callLog[j].admitted}
LiveBefore(i) == {j \in AdmittedBefore(i) : callLog[i].t - callLog[j].t < WindowMs}

IsResponse == last.ev = "response"
RateLimitError == McpError("InvalidRequest", MsgRateLimit)

\* The sliding-window reference, written without the program's filter.
RefLive(st, t) == {i \in 1..Len(st) : t - st[i] < WindowMs}

RECURSIVE RefFilter(_, _)
RefFilter(st, t) ==
    IF st = <<>> THEN <<>>
    ELSE (IF t - Head(st) < WindowMs THEN <<Head(st)>> ELSE <<>>) \o RefFilter(Tail(st), t)

(***************************************************************************)
(* C3 (amended). For every quota and window: a call issued when quota      *)
(* calls were admitted less than window seconds before it is denied, with  *)
(* the rate-limit error; and with quota >= 1, a call issued at least       *)
(* window seconds after every earlier admitted call is admitted.           *)
(***************************************************************************)
C3_QuotaThenWindow ==
    /\ \A i \in 1..Len(callLog) :
          /\ Cardinality(LiveBefore(i)) >= Quota => ~callLog[i].admitted
          /\ (Quota >= 1 /\ LiveBefore(i) = {}) => callLog[i].admitted
    /\ (IsResponse /\ ~callLog[last.call].admitted) =>
          (~last.out.ok /\ last.out.error = RateLimitError)

\* C3 as stated, for all Q and W: after Q calls admitted at one instant the
\* next call at that instant is denied, and a call that comes at least W
\* seconds after a denial and after every admitted call is admitted.
C3_Original ==
    \A i \in 1..Len(callLog) :
       /\ Cardinality({j \in AdmittedBefore(i) : callLog[j].t = callLog[i].t}) >= Quota
             => ~callLog[i].admitted
       /\ ( /\ \E k \in 1..(i - 1) : /\ ~callLog[k].admitted
                                     /\ callLog[i].t - callLog[k].t >= WindowMs
            /\ LiveBefore(i) = {} )
             => callLog[i].admitted

\* Quota 2: two calls admitted, a third denied, and after the window a call
\* admitted again.
C3_Witness ==
    /\ Quota = 2 /\ WindowMs > 0
    /\ \E i, k \in 1..Len(callLog) :
          /\ i < k
          /\ Cardinality(LiveBefore(i)) = 2 /\ ~callLog[i].admitted
          /\ LiveBefore(k) = {} /\ callLog[k].admitted

(***************************************************************************)
(* C4. checkRateLimit is the sliding-window reference: a check admits      *)
(* exactly when fewer than quota stored timestamps t have now - t < window *)
(* (quota 0 always denies); on admit the stored sequence is the filtered   *)
(* one with now appended; on deny the stored map is left as it was.        *)
(***************************************************************************)
C4_SlidingWindow ==
    [][ Len(callLog') = Len(callLog) + 1 =>
          LET st == Stored
              admit == callLog'[Len(callLog')].admitted
          IN /\ admit <=> (Cardinality(RefLive(st, now)) < Quota)
             /\ Quota = 0 => ~admit
             /\ admit => StoredIn(rateLimitStorage') = Append(RefFilter(st, now), now)
             /\ ~admit => rateLimitStorage' = rateLimitStorage
             /\ callLog'[Len(callLog')].t = now ]_vars

\* A denial that left a non-empty window untouched, then an admission that
\* pruned an expired entry.
C4_Witness ==
    \E i, k \in 1..Len(callLog) :
       /\ i < k
       /\ ~callLog[i].admitted /\ AdmittedBefore(i) # {}
       /\ callLog[k].admitted
       /\ Len(Stored) < Cardinality(AdmittedBefore(k)) + 1
       /\ Len(Stored) >= 2

(***************************************************************************)
(* C5 (amended). Right after a rate-limit check, admitting or denying,     *)
(* every retained timestamp satisfies now - timestamp < window, except     *)
(* that with window 0 the timestamp an admitting check has just appended   *)
(* is retained with now - timestamp = 0.                                   *)
(***************************************************************************)
C5_RetainedLive ==
    IsResponse =>
       \A i \in 1..Len(Stored) :
          \/ now - Stored[i] < WindowMs
          \/ /\ WindowMs = 0 /\ callLog[last.call].admitted
             /\ i = Len(Stored) /\ Stored[i] = now

\* C5 as stated: after any check every retained timestamp is inside the window.
C5_Original ==
    IsResponse => \A i \in 1..Len(Stored) : now - Stored[i] < WindowMs

\* A check that denied, leaving an older, still live entry in the window.
C5_Witness ==
    /\ IsResponse /\ ~callLog[last.call].admitted
    /\ Len(Stored) >= 1 /\ Stored[1] < now

(***************************************************************************)
(* C6 (amended). With window 0 and a quota of at least 1, sequential calls *)
(* are never throttled: every call is admitted, however many came before.  *)
(***************************************************************************)
C6_ZeroWindow ==
    (WindowMs = 0 /\ Quota >= 1) => \A i \in 1..Len(callLog) : callLog[i].admitted

\* C6 as stated: with window 0 every call is admitted whatever the quota.
C6_Original ==
    WindowMs = 0 => \A i \in 1..Len(callLog) : callLog[i].admitted

\* Quota 1, window 0: three calls admitted, two of them at the same instant.
C6_Witness ==
    /\ WindowMs = 0 /\ Quota = 1
    /\ Len(callLog) >= 3
    /\ callLog[1].t = callLog[2].t
    /\ \A i \in 1..Len(callLog) : callLog[i].admitted

(***************************************************************************)
(* Vocabulary of the dispatcher properties.                                *)
(***************************************************************************)
Order == <<"checkRateLimit", "verifyAuth", "lookup", "validate", "handler">>
OrderSteps == {Order[i] : i \in 1..Len(Order)}
SideEffectSteps == {"fs.writeFile", "fs.unlink", "database.all", "axios.get", "jwt.sign"}

Known(req) == \E i \in 1..Len(ToolList) : ToolList[i] = req.name

SchemaOf(name) ==
    CASE name = "calculator"          -> CalculatorInputSchema
      [] name = "file_operations"     -> FileOperationInputSchema
      [] name = "database_query"      -> DatabaseQueryInputSchema
      [] name = "web_scraper"         -> WebScraperInputSchema
      [] name = "generate_auth_token" -> AuthTokenInputSchema

ValidArgs(req) == Known(req) /\ parseOk(SchemaOf(req.name), req.args)

\* Quota calls were admitted inside the window before call number c.
OverQuota(c) == Cardinality(LiveBefore(c)) >= Quota

AuthRequiredError == McpError("InvalidRequest", MsgAuthRequired)

(***************************************************************************)
(* C1. A tool call runs rate-limit check, authentication, tool lookup,     *)
(* argument validation, handler in this order; when several conditions     *)
(* fail at once the error of the earliest failing step is returned, and    *)
(* no step runs after one has rejected.                                    *)
(***************************************************************************)
C1_FixedOrder ==
    IsResponse =>
       LET tr == last.trace
           req == last.req
           out == last.out
           over == OverQuota(last.call)
       IN /\ \A i \in 1..Len(tr) :
                IF i <= Len(Order) THEN tr[i] = Order[i] ELSE tr[i] \notin OrderSteps
          /\ over => (~out.ok /\ out.error = RateLimitError /\ tr = SubSeq(Order, 1, 1))
          /\ (~over /\ config.requireAuth /\ ~req.cred.present)
                => (~out.ok /\ out.error = AuthRequiredError /\ tr = SubSeq(Order, 1, 2))
          /\ (~over /\ ~config.requireAuth /\ ~Known(req))
                => (~out.ok /\ out.error.code = "MethodNotFound" /\ tr = SubSeq(Order, 1, 3))
          /\ (~over /\ ~config.requireAuth /\ Known(req) /\ ~ValidArgs(req))
                => (~out.ok /\ tr = SubSeq(Order, 1, 4))
          /\ out.ok => (Len(tr) >= Len(Order) /\ ValidArgs(req))

\* Over quota, auth required with no credential, unknown tool: the
\* rate-limit error is returned and only the rate-limit check ran.
C1_Witness ==
    /\ IsResponse /\ config.requireAuth
    /\ OverQuota(last.call) /\ Quota >= 1
    /\ ~last.req.cred.present /\ ~Known(last.req)
    /\ last.out.error = RateLimitError

(***************************************************************************)
(* C2. When a tool call is rejected by the rate limiter, by                *)
(* authentication, by tool lookup or by argument validation, that call has *)
(* written or deleted no file, run no SQL query, made no outbound fetch    *)
(* and signed no token.                                                    *)
(***************************************************************************)
RejectedEarly(r) ==
    /\ r.ev = "response" /\ ~r.out.ok
    /\ \/ r.out.error = RateLimitError
       \/ r.out.error = AuthRequiredError
       \/ r.out.error.code = "MethodNotFound"
       \/ Known(r.req) /\ ~ValidArgs(r.req)

C2_RejectBeforeExecuting ==
    [][ RejectedEarly(last') =>
          /\ UNCHANGED <<files, dbLog, fetchLog, signLog>>
          /\ \A i \in 1..Len(last'.trace) : last'.trace[i] \notin SideEffectSteps ]_vars

\* Auth required and no credential: a file write is rejected with the auth
\* error and the file system is as it was at start-up.
C2_Witness ==
    /\ IsResponse /\ config.requireAuth
    /\ last.req = Request("file_operations", FileWrite, NoHeader)
    /\ last.out.error = AuthRequiredError
    /\ files = InitFiles

(***************************************************************************)
(* C7 (amended). Concurrent tool calls of the one identity do not race on  *)
(* the window: the check reads, filters and writes back in one synchronous *)
(* step before the handler's first await, so no update is lost (the stored *)
(* window is the admitted calls still live at the last admission) and a    *)
(* call checked while another is in flight is admitted only below quota.   *)
(***************************************************************************)
IsAdmitted(e) == e.admitted
AdmittedLog == SelectSeq(callLog, IsAdmitted)

ValidCredential(cred) ==
    /\ cred.present
    /\ startsWith(cred.str, Bearer)
    /\ jwtVerify(SubSeq(cred.str, Len(Bearer) + 1, Len(cred.str)), config.jwtSecret)

C8_ValidCredentialPasses ==
    ( /\ IsResponse /\ config.requireAuth
      /\ callLog[last.call].admitted
      /\ ValidCredential(last.req.cred) )
       => /\ Len(last.trace) >= 3
          /\ last.out.error.message \notin {MsgAuthRequired, MsgAuthInvalid}

(***************************************************************************)
(* C10. A call whose arguments fail the tool's input schema is rejected    *)
(* with an error kind distinct from the internal-error kind, and the       *)
(* tool's logic does not run.                                              *)
(***************************************************************************)
C10_ValidationErrorKind ==
    ( /\ IsResponse /\ ~config.requireAuth
      /\ callLog[last.call].admitted
      /\ Known(last.req) /\ ~ValidArgs(last.req) )
       => /\ ~last.out.ok
          /\ last.out.error.code # "InternalError"
          /\ \A i \in 1..Len(last.trace) : last.trace[i] # "handler"

(***************************************************************************)
(* C9. verifyAuth never returns false: it succeeds for every credential    *)
(* when requireAuth is false; when requireAuth is true it raises an auth   *)
(* error for an absent credential and for one that, with the Bearer prefix *)
(* stripped, fails verification, and succeeds only for one that verifies.  *)
(***************************************************************************)
StripPrefix(str) ==
    IF startsWith(str, Bearer) THEN SubSeq(str, Len(Bearer) + 1, Len(str)) ELSE str

IsAuthError(e) ==
    e.cls = "McpError" /\ e.code = "InvalidRequest"
    /\ e.message \in {MsgAuthRequired, MsgAuthInvalid}

C9_VerifyAuth ==
    last.ev = "verifyAuth" =>
       LET h == last.authHeader
           r == last.res
           verifies == h.present /\ jwtVerify(StripPrefix(h.str), config.jwtSecret)
       IN /\ ~r.threw => r.ret = TRUE
          /\ ~config.requireAuth => ~r.threw
          /\ (config.requireAuth /\ ~h.present) => (r.threw /\ r.err = AuthRequiredError)
          /\ (config.requireAuth /\ ~verifies) => (r.threw /\ IsAuthError(r.err))
          /\ (config.requireAuth /\ ~r.threw) => verifies

(***************************************************************************)
(* The ReadResourceRequestSchema handler.  resource://users awaits         *)
(* database.all with a fixed query; the other resources answer at once.    *)
(***************************************************************************)
ResourceUris ==
    {"resource://config", "resource://users", "resource://help", "resource://nothing"}

ResourceRequest(uri) == Request("resources/read", [uri |-> Str(<<uri>>)], NoHeader)

ResourceResponse(s, uri, out) ==
    [ev |-> "resource", slot |-> s, call |-> 0, req |-> ResourceRequest(uri),
     trace |-> <<>>, out |-> out]

\* Mutant: the configuration is returned as it is.
safeConfig_WithSecret == config

safeConfig == [k \in (DOMAIN config) \ {"jwtSecret"} |-> config[k]]

\* Mutant: a resource read goes through the rate limiter first.
ReadResource_RateLimited(s, uri) ==
    /\ pending[s] = Idle
    /\ LET rl == checkRateLimit("default")
       IN /\ rateLimitStorage' = rl.storage
          /\ last' = ResourceResponse(s, uri,
                        IF rl.ret THEN Ok(Text([tmpl |-> "resource"]))
                        ELSE Fail(McpError("InvalidRequest", MsgRateLimit)))
    /\ UNCHANGED <<config, now, files, dbLog, fetchLog, signLog, callLog, pending>>

ReadResource(s, uri) ==
    /\ pending[s] = Idle
    /\ CASE uri = "resource://config" ->
              /\ last' = ResourceResponse(s, uri,
                            Ok(Text([tmpl |-> "config", config |-> safeConfig])))
              /\ UNCHANGED pending
         [] uri = "resource://users" ->
              /\ pending' = [pending EXCEPT ![s] =
                                [pc |-> "resource.all", call |-> 0,
                                 req |-> ResourceRequest(uri), frame |-> NoFrame,
                                 trace |-> <<>>]]
              /\ last' = Quiet
         [] uri = "resource://help" ->
              /\ last' = ResourceResponse(s, uri,
                            Ok(Text([tmpl |-> "help",
                                     rateLimitRequests |-> config.rateLimitRequests])))
              /\ UNCHANGED pending
         [] OTHER ->
              /\ last' = ResourceResponse(s, uri,
                            Fail(McpError("InvalidRequest", "Unknown resource")))
              /\ UNCHANGED pending
    /\ UNCHANGED <<config, now, rateLimitStorage, files, dbLog, fetchLog, signLog,
                   callLog>>

\* The callback of the users query: an error, or the rows.
ResourceUsersAll(s) ==
    /\ pending[s].pc = "resource.all"
    /\ \E r \in {"error", "rows"} :
          last' = ResourceResponse(s, "resource://users",
                     IF r = "error"
                     THEN Fail(McpError("InternalError", MsgDatabase))
                     ELSE Ok(Text([tmpl |-> "users"])))
    /\ pending' = [pending EXCEPT ![s] = Idle]
    /\ UNCHANGED <<config, now, rateLimitStorage, files, dbLog, fetchLog, signLog,
                   callLog>>

(***************************************************************************)
(* The server answering tool calls and resource reads one after another.  *)
(* Every awaited operation settles: fs and sqlite call back, axios.get has *)
(* a timeout; hence the weak fairness of Settle.                           *)
(***************************************************************************)
ServeRequests ==
    { Request("calculator", a, NoHeader) : a \in {CalcAdd, CalcDivZero, CalcPower} }
    \cup { Request("file_operations", a, NoHeader) :
             a \in {FileWrite, FileRead, FileList, FileDelete, FileReadOutside} }
    \cup { Request("database_query", QuerySelect, NoHeader),
           Request("web_scraper", ScrapeGood, NoHeader),
           Request("generate_auth_token", TokenArgs, NoHeader),
           Request("no_such_tool", CalcAdd, NoHeader) }

Settle(s) ==
    \/ FsStat(s) \/ FsReadFile(s) \/ FsWriteFile(s) \/ FsReaddir(s) \/ FsUnlink(s)
    \/ DatabaseAll(s) \/ AxiosGet(s) \/ ResourceUsersAll(s)

InitServe ==
    \E ra \in BOOLEAN, q \in 0..MaxQuota :
        InitWith(Config(ra, q, MaxSpecWindow))

NextServe ==
    \/ \E req \in ServeRequests : CallTool(1, req, MaxServeCalls)
    \/ \E uri \in ResourceUris : ReadResource(1, uri)
    \/ FsStat(1)
    \/ FsReadFile(1)
    \/ FsWriteFile(1)
    \/ FsReaddir(1)
    \/ FsUnlink(1)
    \/ DatabaseAll(1)
    \/ AxiosGet(1)
    \/ ResourceUsersAll(1)

SpecServe == InitServe /\ [][NextServe]_vars /\ WF_vars(Settle(1))

(***************************************************************************)
(* C11. Every tool call and every resource read ends in exactly one        *)
(* outcome, a result or a typed error: each answer is a result or an       *)
(* McpError with an error code, a suspended request is answered by the     *)
(* step that resumes it and is always answered eventually, and whatever    *)
(* was answered before, an idle server accepts and answers a new request.  *)
(***************************************************************************)
ErrorCodes == {"InvalidRequest", "MethodNotFound", "InternalError"}
IsAnswer(r) == r.ev \in {"response", "resource"}

TypedOutcome(out) ==
    IF out.ok
    THEN out.content # <<>> /\ out.error = McpError("none", "none")
    ELSE /\ out.content = <<>>
         /\ out.error.cls = "McpError" /\ out.error.code \in ErrorCodes

C11_AlwaysAnswered ==
    /\ [](IsAnswer(last) => TypedOutcome(last.out))
    /\ [][ \A s \in Slots :
              (pending[s] # Idle /\ pending'[s] # pending[s]) =>
                 \/ /\ pending'[s] = Idle
                    /\ IsAnswer(last') /\ last'.slot = s /\ last'.req = pending[s].req
                 \/ /\ pending[s].pc = "fs.stat" /\ pending'[s].pc = "fs.readFile"
                    /\ pending'[s].req = pending[s].req ]_vars
    /\ \A s \in Slots : (pending[s] # Idle) ~> (pending[s] = Idle)
    /\ []((\E s \in Slots : pending[s] = Idle) =>
             ENABLED (\E s \in Slots : LowestIdle(s) /\ ReadResource(s, "resource://help")))

\* The second tool call is answered with an internal error for a failed file
\* read, after the first call was answered, and nothing is left suspended.
C11_Witness ==
    /\ IsResponse /\ last.call = 2
    /\ ~last.out.ok /\ last.out.error.code = "InternalError"
    /\ last.trace[Len(last.trace)] = "fs.stat"
    /\ \A s \in Slots : pending[s] = Idle

(***************************************************************************)
(* C12. A typed error raised by a tool (division by zero, path outside the *)
(* allowed directories, disallowed SQL, disallowed domain, file too large) *)
(* is returned by the handler with its code and message unchanged; any     *)
(* other exception of a tool (a schema failure, a failed file operation)   *)
(* is returned as an internal error.                                       *)
(***************************************************************************)
DivisionByZeroError == McpError("InvalidRequest", "Division by zero is not allowed")
AccessDeniedError == McpError("InvalidRequest", MsgAccessDenied)
FileTooLargeError == McpError("InvalidRequest", MsgFileTooLarge)
FsSteps == {"fs.stat", "fs.readFile", "fs.writeFile", "fs.readdir", "fs.unlink"}

\* The call passed the rate-limit check and authentication.
Dispatched(r) == r.ev = "response" /\ Len(r.trace) >= 3

C12_TypedErrorsUnchanged ==
    Dispatched(last) =>
       LET req == last.req
           out == last.out
           raised == dispatch(req.name, req.args)
           is(name, args) == req.name = name /\ req.args = args
       IN /\ raised.k = "throw" =>
                /\ ~out.ok
                /\ out.error = IF raised.err.cls = "McpError" THEN raised.err
                               ELSE McpError("InternalError", MsgToolFailed)
          /\ is("calculator", CalcDivZero) => out.error = DivisionByZeroError
          /\ is("file_operations", FileReadOutside) => out.error = AccessDeniedError
          /\ is("database_query", QueryDrop) =>
                out.error = McpError("InvalidRequest", MsgProhibited)
          /\ is("web_scraper", ScrapeEvil) =>
                out.error = McpError("InvalidRequest", MsgDomain)
          /\ (Known(req) /\ ~ValidArgs(req)) =>
                out.error = McpError("InternalError", MsgToolFailed)
          /\ (~out.ok /\ last.trace[Len(last.trace)] \in FsSteps) =>
                \/ out.error = FileTooLargeError
                \/ out.error = McpError("InternalError", MsgFileFailed)

\* A division by zero is answered with the calculator's own error.
C12_Witness ==
    /\ Dispatched(last)
    /\ last.req = Request("calculator", CalcDivZero, NoHeader)
    /\ last.out = Fail(DivisionByZeroError)

(***************************************************************************)
(* Tool lookup: names the switch knows and names it does not, each with    *)
(* arguments of every tool, with and without a credential.                 *)
(***************************************************************************)
LookupNames == {"no_such_tool", "Calculator", "", "resources/read", "calculator"}

LookupArgs == {NoArgs, CalcAdd, CalcPower, FileWrite, QuerySelect, ScrapeGood, TokenArgs}

LookupRequests ==
    { Request(n, a, c) : n \in LookupNames, a \in LookupArgs, c \in {NoHeader, GoodCred} }

InitLookup ==
    \E ra \in BOOLEAN, q \in 0..MaxSpecQuota :
        InitWith(Config(ra, q, MaxSpecWindow))

NextLookup ==
    \/ \E req \in LookupRequests : CallTool(1, req, MaxLookupCalls)
    \/ Tick(MaxSpecTicks)

SpecLookup == InitLookup /\ [][NextLookup]_vars

(***************************************************************************)
(* C13. A tool call that names no registered tool and is rejected neither  *)
(* by the rate limiter nor by authentication fails with the not-found      *)
(* error whatever its arguments: only the two checks and the lookup ran,   *)
(* nothing was suspended, written, queried, fetched or signed.             *)
(***************************************************************************)
NotFoundError == McpError("MethodNotFound", "Unknown tool")

PassedChecks(r) ==
    /\ callLog[r.call].admitted
    /\ ~(~r.out.ok /\ IsAuthError(r.out.error))

C13_UnknownToolNotFound ==
    [][ (last'.ev = "response" /\ ~Known(last'.req)
           /\ callLog'[last'.call].admitted
           /\ ~(~last'.out.ok /\ IsAuthError(last'.out.error)))
        => /\ last'.out = Fail(NotFoundError)
           /\ last'.trace = SubSeq(Order, 1, 3)
           /\ UNCHANGED <<files, dbLog, fetchLog, signLog, pending>> ]_vars

\* An unknown name with the file tool's write arguments: not found, and the
\* file system is as it was at start-up.
C13_Witness ==
    /\ IsResponse /\ PassedChecks(last)
    /\ last.req = Request("Calculator", FileWrite, NoHeader)
    /\ last.out = Fail(NotFoundError)
    /\ files = InitFiles

(***************************************************************************)
(* The file tool on its own: concurrent calls on paths inside the allowed  *)
(* directory, outside it, beside it (/tmpevil), reached through "." and    *)
(* ".." segments and relative to the working directory, with contents that *)
(* are plain, accented, empty, oversized and ill-formed.                   *)
(***************************************************************************)
PTraversal == <<"/", "tmp", "/", "..", "/", "etc", "/", "p">>
PAlias == <<"/", "tmp", "/", ".", "/", "b", "/", "..", "/", "a">>
PRelative == <<"a">>
PRelativeUp == <<"..", "/", "tmp", "/", "a">>

Accented == <<"x", "U+00E9">>
Surrogate == <<"U+D800">>
Empty == <<>>

FileArgs(operation, path) == [operation |-> Str(<<operation>>), path |-> Str(path)]
WriteArgs(path, content) ==
    [operation |-> Str(<<"write">>), path |-> Str(path), content |-> Str(content)]

FileRequests ==
    { Request("file_operations", WriteArgs(PA, c), NoHeader) :
        c \in {Accented, Big, Empty, Surrogate} }
    \cup { Request("file_operations", WriteArgs(q, Small), NoHeader) :
             q \in {PX, PTraversal, PTmp} }
    \cup { Request("file_operations", FileArgs("read", q), NoHeader) :
             q \in {PA, PX, PE, PTraversal, PAlias, PRelative, PRelativeUp} }
    \cup { Request("file_operations", FileArgs("list", q), NoHeader) : q \in {PTmp, PEtc} }
    \cup { Request("file_operations", FileArgs("delete", q), NoHeader) :
             q \in {PA, PX, PE} }

InitFileTool == InitWith(Config(FALSE, MaxFileCalls, MaxSpecWindow))

NextFiles ==
    \/ \E s \in Slots, req \in FileRequests :
          LowestIdle(s) /\ CallTool(s, req, MaxFileCalls)
    \/ \E s \in Slots : FsStat(s)
    \/ \E s \in Slots : FsReadFile(s)
    \/ \E s \in Slots : FsWriteFile(s)
    \/ \E s \in Slots : FsReaddir(s)
    \/ \E s \in Slots : FsUnlink(s)

SpecFiles == InitFileTool /\ [][NextFiles]_vars

\* Suspended at a file system operation.
FsPcs == {"fs.stat", "fs.readFile", "fs.writeFile", "fs.readdir", "fs.unlink"}

AllowedDirs == {resolve(config.allowedDirectories[i]) : i \in 1..Len(config.allowedDirectories)}

\* d is a prefix of p, compared position by position.
IsPrefix(d, p) == Len(d) <= Len(p) /\ \A k \in 1..Len(d) : p[k] = d[k]
HasAllowedPrefix(p) == \E d \in AllowedDirs : IsPrefix(d, p)

\* p is an allowed directory or lies beneath one.
Contained(p) == \E d \in AllowedDirs : p = d \/ IsPrefix(d \o <<"/">>, p)

IsFileCall(r) == Dispatched(r) /\ r.req.name = "file_operations" /\ ValidArgs(r.req)
TargetOf(r) == resolve(r.req.args.path.s)

(***************************************************************************)
(* C14. Every path the file tool reads, writes, lists or deletes is an     *)
(* allowed directory or lies beneath one: no call is suspended at a file   *)
(* system operation on a path outside them, and every file outside them is *)
(* as it was at start-up.                                                  *)
(***************************************************************************)
C14_ContainedInAllowedDirs ==
    /\ \A s \in Slots : pending[s].pc \in FsPcs => Contained(pending[s].frame.path)
    /\ \A q \in DOMAIN files : ~Contained(q) => files[q] = InitFiles[q]

(***************************************************************************)
(* C15. The file tool performs a file system operation only on a resolved  *)
(* path that has an allowed directory as a prefix; a call on any other     *)
(* path fails with the access-denied error without a file system step, and *)
(* the files without such a prefix are as they were at start-up.           *)
(***************************************************************************)
C15_PrefixGate ==
    /\ \A s \in Slots : pending[s].pc \in FsPcs => HasAllowedPrefix(pending[s].frame.path)
    /\ \A q \in DOMAIN files : ~HasAllowedPrefix(q) => files[q] = InitFiles[q]
    /\ (IsFileCall(last) /\ ~HasAllowedPrefix(TargetOf(last))) =>
          /\ last.out = Fail(AccessDeniedError)
          /\ \A i \in 1..Len(last.trace) : last.trace[i] \notin FsSteps
    /\ (IsFileCall(last) /\ last.out = Fail(AccessDeniedError)) =>
          ~HasAllowedPrefix(TargetOf(last))

\* A read of /tmp/../etc/p is denied although the path as given begins with
\* the allowed directory; a write to /tmp/a has gone through before.
C15_Witness ==
    /\ IsFileCall(last)
    /\ last.req.args = FileArgs("read", PTraversal)
    /\ last.out = Fail(AccessDeniedError)
    /\ files[PA].kind = "file"

(***************************************************************************)
(* C18, as the code has it. What a read answers, given the string the last *)
(* write on that path was given: if its UTF-8 size is at most maxFileSize  *)
(* the read returns it, exactly when it holds no unpaired surrogate and    *)
(* with each unpaired surrogate replaced by U+FFFD otherwise; if its size  *)
(* exceeds maxFileSize the read fails with "File too large", unless the    *)
(* size was checked before that write.  A write stores the UTF-8 encoding  *)
(* of its content; a write of the empty string is rejected and stores      *)
(* nothing.                                                                *)
(***************************************************************************)
IsRead(r) == IsFileCall(r) /\ r.req.args.operation.s = <<"read">>
IsWrite(r) == IsFileCall(r) /\ r.req.args.operation.s = <<"write">>
LastStep(r) == r.trace[Len(r.trace)]
FileContent(c) == Ok(Text([tmpl |-> "File content", content |-> c]))

WellFormed(str) == \A i \in 1..Len(str) : str[i] # "U+D800"
Replaced(str) == [i \in 1..Len(str) |-> IF str[i] = "U+D800" THEN "U+FFFD" ELSE str[i]]
Utf8Size(str) == Len(utf8Encode(str))

C18_WriteThenRead ==
    /\ ( /\ IsRead(last) /\ Dispatched(last) /\ HasAllowedPrefix(TargetOf(last))
         /\ Entry(TargetOf(last)).kind = "file" ) =>
          LET written == Entry(TargetOf(last)).src
          IN /\ Utf8Size(written) <= config.maxFileSize =>
                   /\ last.out = FileContent(Replaced(written))
                   /\ WellFormed(written) => last.out = FileContent(written)
             /\ Utf8Size(written) > config.maxFileSize =>
                   \/ last.out = Fail(FileTooLargeError)
                   \/ LastStep(last) = "fs.readFile" /\ last.out = FileContent(Replaced(written))
    /\ (IsWrite(last) /\ last.out.ok) =>
          /\ last.req.args.content.s # <<>>
          /\ LastStep(last) = "fs.writeFile"
          /\ Entry(TargetOf(last)) = File(last.req.args.content.s)
    /\ ( /\ IsWrite(last) /\ Dispatched(last) /\ HasAllowedPrefix(TargetOf(last))
         /\ last.req.args.content.s = <<>> ) =>
          /\ last.out = Fail(McpError("InvalidRequest", MsgContentRequired))
          /\ LastStep(last) \notin FsSteps

\* C18 as stated: every write into an existing allowed directory succeeds,
\* and a read of a path returns exactly the string last written to it.
C18_Original ==
    /\ ( /\ IsRead(last) /\ Dispatched(last) /\ Contained(TargetOf(last))
         /\ Entry(TargetOf(last)).kind = "file" ) =>
          last.out = FileContent(Entry(TargetOf(last)).src)
    /\ ( /\ IsWrite(last) /\ Dispatched(last) /\ Contained(TargetOf(last))
         /\ Entry(TargetOf(last)).kind # "dir"
         /\ Entry(Parent(TargetOf(last))).kind = "dir" ) =>
          /\ last.out.ok
          /\ Entry(TargetOf(last)).src = last.req.args.content.s

\* An accented string written to /tmp/a is read back as it was written.
C18_Witness ==
    /\ IsRead(last) /\ TargetOf(last) = PA
    /\ Entry(PA) = File(Accented)
    /\ last.out = FileContent(Accented)

(***************************************************************************)
(* C19. When fs.stat reports a file of more than maxFileSize bytes the     *)
(* read is answered with the "File too large" error and no content, and    *)
(* fs.readFile is not called; when it reports at most maxFileSize the call *)
(* goes on to fs.readFile, whose content is what the read returns.         *)
(***************************************************************************)
C19_SizeLimit ==
    [][ \A s \in Slots :
          LET e == Entry(pending[s].frame.path)
          IN /\ ( /\ pending[s].pc = "fs.stat" /\ pending'[s] # pending[s]
                  /\ e.kind = "file" )
                   => IF Len(e.content) > config.maxFileSize
                      THEN /\ pending'[s] = Idle
                           /\ last'.ev = "response" /\ last'.slot = s
                           /\ last'.out = Fail(FileTooLargeError)
                           /\ last'.out.content = <<>>
                           /\ LastStep(last') = "fs.stat"
                      ELSE /\ pending'[s].pc = "fs.readFile"
                           /\ pending'[s].frame = pending[s].frame
             /\ ( /\ pending[s].pc = "fs.readFile" /\ pending'[s] # pending[s]
                  /\ e.kind = "file" )
                   => /\ pending'[s] = Idle
                      /\ last'.ev = "response" /\ last'.slot = s
                      /\ last'.out = FileContent(utf8Decode(e.content)) ]_vars

\* A read of /tmp/a, which holds more than maxFileSize bytes, is answered
\* with "File too large" after fs.stat.
C19_Witness ==
    /\ IsRead(last) /\ TargetOf(last) = PA
    /\ Entry(PA).kind = "file" /\ Len(Entry(PA).content) > config.maxFileSize
    /\ LastStep(last) = "fs.stat"
    /\ last.out = Fail(FileTooLargeError)

(***************************************************************************)
(* The query tool on its own: two concurrent callers sending queries that  *)
(* differ in case, surrounding white space, statement kind and in where a  *)
(* denylisted word stands.                                                 *)
(***************************************************************************)
QSelect == <<"select", " ", "*", " ", "from", " ", "users">>
QUpper == <<"SELECT", " ", "*", " ", "from", " ", "users">>
QPadded == <<"\n", " ", "select", " ", "1", " ", "\t">>
QStacked == <<"select", " ", "*", " ", "from", " ", "users", ";", " ", "drop", " ", "table", " ", "users">>
QStackedMixed == <<"Select", " ", "1", ";", " ", "Drop", " ", "table", " ", "users">>
QColumn == <<"select", " ", "create", "d_at", " ", "from", " ", "users">>
QLiteral == <<"select", " ", "'", "Update", "'">>
QExecTail == <<"select", " ", "1", ";", "EXEC", " ", "x">>
QDrop == <<"DROP", " ", "table", " ", "users">>
QInsert == <<"insert", " ", "into", " ", "users">>
QPragma == <<"pragma", " ", "table_info", "(", "users", ")">>
QWith == <<"with", " ", "t", " ", "as", " ", "(", "select", " ", "1", ")", " ", "select", " ", "*", " ", "from", " ", "t">>
QComment == <<"--", " ", "x", "\n", "select", " ", "1">>
QSelected == <<"select", "ed">>

Queries ==
    {QSelect, QUpper, QPadded, QStacked, QStackedMixed, QColumn, QLiteral, QExecTail,
     QDrop, QInsert, QPragma, QWith, QComment, QSelected, <<>>}

QueryRequests ==
    { Request("database_query", [query |-> Str(q)], NoHeader) : q \in Queries }
    \cup { Request("database_query", a, NoHeader) : a \in {QueryNumber, NoArgs} }

InitQuery == InitWith(Config(FALSE, MaxQueryCalls, MaxSpecWindow))

NextQuery ==
    \/ \E s \in Slots, req \in QueryRequests : LowestIdle(s) /\ CallTool(s, req, MaxQueryCalls)
    \/ \E s \in Slots : DatabaseAll(s)

SpecQuery == InitQuery /\ [][NextQuery]_vars

\* The rule of the claim: lower-cased and trimmed, the query starts with
\* select and holds none of the seven words.
Denylist == {"insert", "update", "delete", "drop", "create", "alter", "exec"}
Permitted(q) ==
    LET l == trim(toLowerCase(q))
    IN /\ Len(l) >= 1 /\ l[1] = "select"
       /\ \A i \in 1..Len(l) : l[i] \notin Denylist

IsQueryCall(r) == Dispatched(r) /\ r.req.name = "database_query" /\ ValidArgs(r.req)
QueryOf(r) == r.req.args.query.s
OnlySelectError == McpError("InvalidRequest", MsgOnlySelect)
ProhibitedError == McpError("InvalidRequest", MsgProhibited)

(***************************************************************************)
(* C16. A query reaches database.all only if, lower-cased and trimmed, it  *)
(* starts with select and holds none of insert, update, delete, drop,      *)
(* create, alter, exec; a call with any other query is answered with an    *)
(* invalid-request error without a database step, and a call with such a   *)
(* query does reach the database, which is given the query as sent.        *)
(***************************************************************************)
C16_SelectOnly ==
    /\ \A q \in dbLog : Permitted(q)
    /\ \A s \in Slots : pending[s].pc = "database.all" =>
          Permitted(pending[s].frame.input.query.s)
    /\ (IsQueryCall(last) /\ ~Permitted(QueryOf(last))) =>
          /\ last.out \in {Fail(OnlySelectError), Fail(ProhibitedError)}
          /\ \A i \in 1..Len(last.trace) : last.trace[i] # "database.all"
          /\ QueryOf(last) \notin dbLog
    /\ (IsQueryCall(last) /\ Permitted(QueryOf(last))) =>
          /\ last.trace[Len(last.trace)] = "database.all"
          /\ QueryOf(last) \in dbLog

\* 'select * from users; drop table users' has been rejected for its
\* prohibited keyword after an upper-case SELECT went to the database.
C16_Witness ==
    /\ IsQueryCall(last) /\ QueryOf(last) = QStacked
    /\ last.out = Fail(ProhibitedError)
    /\ dbLog = {QUpper}

(***************************************************************************)
(* The scraper on its own: two concurrent callers, under several settings  *)
(* of allowedDomains, sending URLs in which the allowed domain stands in   *)
(* the host, around the host, or elsewhere in the URL.                     *)
(***************************************************************************)
ExampleCom == <<"example", ".", "com">>
EvilCom == <<"evil", ".", "com">>

UrlUpper == <<"https://", "EXAMPLE", ".", "COM", "/">>
UrlSub == <<"https://", "www", ".", "example", ".", "com", "/">>
UrlPort == <<"http://", "example", ".", "com", ":", "8080", "/", "x">>
UrlSuffixed == <<"https://", "example", ".", "com", ".", "evil", ".", "org", "/">>
UrlPrefixed == <<"https://", "not", "example", ".", "com", "/">>
UrlUserinfo == <<"https://", "example", ".", "com", "@", "evil", ".", "com", "/">>
UrlInPath == <<"https://", "evil", ".", "com", "/", "example", ".", "com">>
UrlInQuery == <<"https://", "evil", ".", "com", "?", "example", ".", "com">>
UrlInFragment == <<"https://", "evil", ".", "com", ":", "8080", "#", "example", ".", "com">>
UrlBare == <<"https://", "example", ".", "com">>

Urls ==
    {UrlGood, UrlEvil, UrlUpper, UrlSub, UrlPort, UrlSuffixed, UrlPrefixed, UrlUserinfo,
     UrlInPath, UrlInQuery, UrlInFragment, UrlBare}

ScrapeRequests ==
    { Request("web_scraper", [url |-> Str(u)], NoHeader) : u \in Urls }
    \cup { Request("web_scraper", a, NoHeader) : a \in {ScrapeGood, ScrapeNotUrl, NoArgs} }

AllowedDomainSettings ==
    { <<ExampleCom>>, <<>>, <<EvilCom, ExampleCom>>, <<<<"Example", ".", "com">>>> }

InitScrape ==
    \E d \in AllowedDomainSettings :
        InitWith([Config(FALSE, MaxScrapeCalls, MaxSpecWindow) EXCEPT !.allowedDomains = d])

NextScrape ==
    \/ \E s \in Slots, req \in ScrapeRequests : LowestIdle(s) /\ CallTool(s, req, MaxScrapeCalls)
    \/ \E s \in Slots : AxiosGet(s)

SpecScrape == InitScrape /\ [][NextScrape]_vars

\* The lower-cased hostname of each URL sent, as the URL standard gives it.
ExpectedHost(u) ==
    CASE u \in {UrlGood, UrlUpper, UrlPort, UrlBare} -> ExampleCom
      [] u = UrlSub -> <<"www", ".", "example", ".", "com">>
      [] u = UrlSuffixed -> <<"example", ".", "com", ".", "evil", ".", "org">>
      [] u = UrlPrefixed -> <<"not", "example", ".", "com">>
      [] u \in {UrlEvil, UrlUserinfo, UrlInPath, UrlInQuery, UrlInFragment} -> EvilCom

HostAllowed(u) ==
    \E i \in 1..Len(config.allowedDomains) :
        \E k \in 0..Len(ExpectedHost(u)) :
            /\ k + Len(config.allowedDomains[i]) <= Len(ExpectedHost(u))
            /\ \A j \in 1..Len(config.allowedDomains[i]) :
                  ExpectedHost(u)[k + j] = config.allowedDomains[i][j]

IsScrapeCall(r) == Dispatched(r) /\ r.req.name = "web_scraper" /\ ValidArgs(r.req)
UrlOf(r) == r.req.args.url.s
DomainError == McpError("InvalidRequest", MsgDomain)

(***************************************************************************)
(* C17. The scraper calls axios.get only for a URL whose lower-cased       *)
(* hostname contains one of config.allowedDomains as a substring; a call   *)
(* with any other URL fails with the domain-not-allowed error and no       *)
(* request is made, and a call whose hostname does contain one goes on to  *)
(* axios.get.                                                              *)
(***************************************************************************)
C17_AllowedDomainOnly ==
    /\ \A u \in fetchLog : HostAllowed(u)
    /\ \A s \in Slots : pending[s].pc = "axios.get" =>
          HostAllowed(pending[s].frame.input.url.s)
    /\ (IsScrapeCall(last) /\ ~HostAllowed(UrlOf(last))) =>
          /\ last.out = Fail(DomainError)
          /\ \A i \in 1..Len(last.trace) : last.trace[i] # "axios.get"
          /\ UrlOf(last) \notin fetchLog
    /\ (IsScrapeCall(last) /\ HostAllowed(UrlOf(last))) =>
          /\ last.trace[Len(last.trace)] = "axios.get"
          /\ UrlOf(last) \in fetchLog

\* With allowedDomains [example.com], https://example.com@evil.com/ has been
\* refused after https://EXAMPLE.COM/ was fetched.
C17_Witness ==
    /\ config.allowedDomains = <<ExampleCom>>
    /\ IsScrapeCall(last) /\ UrlOf(last) = UrlUserinfo
    /\ last.out = Fail(DomainError)
    /\ fetchLog = {UrlUpper}

(***************************************************************************)
(* The length limit of the scraper on its own: the arguments go through    *)
(* WebScraperInputSchema and the limit is applied to every content of up   *)
(* to MaxContentLen characters.                                            *)
(***************************************************************************)
Contents == UNION { [1..n -> {"a", "b"}] : n \in 0..MaxContentLen }

MaxLengths == (0 - MaxNegLength)..(MaxContentLen + 1)

LimitArgs ==
    { [url |-> Str(UrlGood), maxLength |-> Num(n)] : n \in MaxLengths }
    \cup { [url |-> Str(UrlGood)] }

LimitContentCall(args, content) ==
    /\ parseOk(WebScraperInputSchema, args)
    /\ LET input == parse(WebScraperInputSchema, args)
       IN last' = [ev |-> "limitContent", content |-> content,
                   maxLength |-> input.maxLength.n,
                   res |-> limitContent(content, input.maxLength.n)]
    /\ UNCHANGED <<config, now, rateLimitStorage, files, dbLog, fetchLog, signLog,
                   pending, callLog>>

InitLimit == InitWith(Config(FALSE, MaxSpecQuota, MaxSpecWindow))

NextLimit == \E args \in LimitArgs, content \in Contents : LimitContentCall(args, content)

SpecLimit == InitLimit /\ [][NextLimit]_vars

\* String length in characters: the marker is one chunk of MarkerLength
\* characters, every other chunk is one character.
RECURSIVE length(_)
length(str) ==
    IF str = <<>> THEN 0
    ELSE (IF <<Head(str)>> = TruncationMarker THEN MarkerLength ELSE 1) + length(Tail(str))

FirstChars(content, n) == [i \in 1..n |-> content[i]]
IsLimit == last.ev = "limitContent"

(***************************************************************************)
(* C20 (amended). For an integer maxLength >= 0: content longer than       *)
(* maxLength is returned as its first maxLength characters followed by the *)
(* marker, maxLength + MarkerLength characters in all; content of at most  *)
(* maxLength characters is returned unchanged.  For a maxLength < 0, which *)
(* the schema accepts, every content, the empty one too, is returned as    *)
(* the marker alone, which is longer than maxLength + MarkerLength.        *)
(***************************************************************************)
C20_Truncation ==
    IsLimit =>
       /\ (last.maxLength >= 0 /\ Len(last.content) > last.maxLength) =>
             /\ last.res = FirstChars(last.content, last.maxLength) \o TruncationMarker
             /\ length(last.res) = last.maxLength + MarkerLength
       /\ Len(last.content) <= last.maxLength => last.res = last.content
       /\ last.maxLength < 0 =>
             /\ last.res = TruncationMarker
             /\ length(last.res) > last.maxLength + MarkerLength

\* C20 as stated: for every maxLength the schema accepts, longer content is
\* cut to its first maxLength characters plus the marker and the result has
\* at most maxLength + MarkerLength characters; other content is unchanged.
C20_Original ==
    IsLimit =>
       /\ Len(last.content) > last.maxLength =>
             /\ last.res = substring0(last.content, last.maxLength) \o TruncationMarker
             /\ length(last.res) <= last.maxLength + MarkerLength
       /\ Len(last.content) <= last.maxLength => last.res = last.content

\* "aba" limited to 2 characters is "ab" followed by the marker.
C20_Witness ==
    /\ IsLimit
    /\ last.content = <<"a", "b", "a">> /\ last.maxLength = 2
    /\ last.res = <<"a", "b">> \o TruncationMarker

(***************************************************************************)
(* The token tool on its own, under a clock that may or may not move on    *)
(* between the tool's two readings of it.                                  *)
(***************************************************************************)
TokenUsers == {<<"demo_user">>, <<"admin">>, <<>>}

TokenArgsSet ==
    { [username |-> Str(u)] : u \in TokenUsers }
    \cup { [username |-> Num(1)], NoArgs }

\* Time that passes between the reading for exp and the reading for iat.
Elapsed == {0, TickMs}

GenerateAuthTokenCall(args, elapsed) ==
    /\ Cardinality(signLog) < MaxTokenCalls
    /\ now + elapsed <= MaxTicks * TickMs
    /\ LET r == generateAuthTokenToolAt(args, now, now + elapsed)
       IN /\ signLog' = signLog \cup r.signed
          /\ last' = [ev |-> "generateAuthToken", args |-> args, expClock |-> now,
                      iatClock |-> now + elapsed,
                      out |-> IF r.k = "throw" THEN Fail(catchTool(r.err))
                              ELSE Ok(r.content)]
    /\ now' = now + elapsed
    /\ UNCHANGED <<config, rateLimitStorage, files, dbLog, fetchLog, pending, callLog>>

InitToken == InitWith(Config(FALSE, MaxSpecQuota, MaxSpecWindow))

NextToken ==
    \/ \E args \in TokenArgsSet, elapsed \in Elapsed : GenerateAuthTokenCall(args, elapsed)
    \/ Tick(MaxTicks)

SpecToken == InitToken /\ [][NextToken]_vars

PayloadOf(token) == token[1].tok.payload
IsTokenCall == last.ev = "generateAuthToken"

(***************************************************************************)
(* C21. Every token the token tool signs has exp = iat + 86400, at every   *)
(* clock value at which the tool runs.                                     *)
(***************************************************************************)
C21_ExpiryIs24h ==
    \A token \in signLog : PayloadOf(token).exp = PayloadOf(token).iat + TokenLifetime

\* C21, as the code has it: exp is 86400 seconds after the second of the
\* first clock reading and iat is the second of the second reading; they
\* are 86400 apart exactly when both readings fall in the same second.
C21_TwoReadings ==
    (IsTokenCall /\ last.out.ok) =>
       LET p == PayloadOf(last.out.content[1].text.token)
       IN /\ p.exp = (last.expClock \div MsPerSecond) + TokenLifetime
          /\ p.iat = last.iatClock \div MsPerSecond
          /\ (last.expClock \div MsPerSecond = last.iatClock \div MsPerSecond)
                <=> (p.exp = p.iat + TokenLifetime)

(***************************************************************************)
(* The calculator on its own, over every operation and every pair of       *)
(* integer operands of magnitude up to MaxOperand.                         *)
(***************************************************************************)
Operands == (0 - MaxOperand)..MaxOperand
Operations == {<<"add">>, <<"subtract">>, <<"multiply">>, <<"divide">>}

CalculatorArgs ==
    { [operation |-> Str(op), a |-> Num(a), b |-> Num(b)] :
        op \in Operations, a \in Operands, b \in Operands }

CalculatorCall(args) ==
    /\ LET r == calculatorTool(args)
       IN last' = [ev |-> "calculator", args |-> args,
                   out |-> IF r.k = "throw" THEN Fail(catchTool(r.err)) ELSE Ok(r.content)]
    /\ UNCHANGED <<config, now, rateLimitStorage, files, dbLog, fetchLog, signLog,
                   pending, callLog>>

InitCalc == InitWith(Config(FALSE, MaxSpecQuota, MaxSpecWindow))

NextCalc == \E args \in CalculatorArgs : CalculatorCall(args)

SpecCalc == InitCalc /\ [][NextCalc]_vars

IsCalc == last.ev = "calculator"
OpOf(r) == r.args.operation.s
A(r) == r.args.a.n
B(r) == r.args.b.n
ResultOf(r) == r.out.content[1].text.result

\* The exact result of the operation as a fraction num/den with den > 0.
Exact(r) ==
    CASE OpOf(r) = <<"add">>      -> [num |-> A(r) + B(r), den |-> 1]
      [] OpOf(r) = <<"subtract">> -> [num |-> A(r) - B(r), den |-> 1]
      [] OpOf(r) = <<"multiply">> -> [num |-> A(r) * B(r), den |-> 1]
      [] OpOf(r) = <<"divide">>   ->
            IF B(r) < 0 THEN [num |-> 0 - A(r), den |-> 0 - B(r)]
            ELSE [num |-> A(r), den |-> B(r)]

SameValue(x, y) == x.num * y.den = y.num * x.den

\* |x - y| as a fraction; x and y have positive denominators.
Distance(x, y) == [num |-> Abs(x.num * y.den - y.num * x.den), den |-> x.den * y.den]
NoFarther(d1, d2) == d1.num * d2.den <= d2.num * d1.den

\* The numbers with a significand of SignificandBits bits, in the range the
\* results fall in.
Exponents == 0..(2 * SignificandBits + 2)
Numbers ==
    { [num |-> sg * m * Pow2(up), den |-> Pow2(down)] :
        sg \in {-1, 1}, m \in 0..(Pow2(SignificandBits) - 1),
        up \in 0..(SignificandBits + 2), down \in Exponents }
IsNumber(x) == \E y \in Numbers : SameValue(x, y)

JavaToolList == <<"calculator", "file_operations", "database_query", "web_scraper">>

JavaReturned == [threw |-> FALSE, exception |-> "none"]
JavaThrew(e) == [threw |-> TRUE, exception |-> e]

\* CalculatorTool.execute
JavaCalculatorTool(arguments) ==
    LET operation == Get(arguments, "operation")
        aNum == Get(arguments, "a")
        bNum == Get(arguments, "b")
    IN IF ~IsObject(arguments) THEN JavaThrew("NullPointerException")
       ELSE IF \/ (operation # Undef /\ operation.t # "string")
               \/ (aNum # Undef /\ aNum.t # "number")
               \/ (bNum # Undef /\ bNum.t # "number")
            THEN JavaThrew("ClassCastException")
       ELSE IF operation = Undef \/ aNum = Undef \/ bNum = Undef
            THEN JavaThrew("IllegalArgumentException")
       ELSE IF operation.s \notin {<<"add">>, <<"subtract">>, <<"multiply">>, <<"divide">>}
            THEN JavaThrew("IllegalArgumentException")
       ELSE IF operation.s = <<"divide">> /\ bNum.n = 0
            THEN JavaThrew("IllegalArgumentException")
       ELSE JavaReturned

\* McpToolService.callTool: switch (toolName); the other three tools return
\* a fixed text.
JavaCallTool(toolName, arguments) ==
    CASE toolName = "calculator" -> JavaCalculatorTool(arguments)
      [] toolName \in {"file_operations", "database_query", "web_scraper"} -> JavaReturned
      [] OTHER -> JavaThrew("IllegalArgumentException")

\* McpController.callTool: 200 with the content, or 400 on any exception.
JavaController(request) ==
    IF JavaCallTool(request.name, request.args).threw THEN 400 ELSE 200

JavaRoutes(toolName) == \E i \in 1..Len(JavaToolList) : JavaToolList[i] = toolName
TsRoutes(toolName) == \E i \in 1..Len(ToolList) : ToolList[i] = toolName

\* The TypeScript gateway let the call through to a tool function.
TsGatewayAccepted(r) == r.ev = "response" /\ Len(r.trace) > 3

(***************************************************************************)
(* C23. The TypeScript gateway and the Java gateway take the same          *)
(* accept/reject decision on the same request after the same requests: a   *)
(* call the TypeScript gateway rejects at its rate-limit check, at         *)
(* authentication or at tool lookup is rejected by the Java gateway, a     *)
(* call it passes on to a tool is routed by the Java gateway, and both     *)
(* route the same tool names.                                              *)
(***************************************************************************)
C23_SameDecisions ==
    last.ev = "response" =>
          /\ TsGatewayAccepted(last) <=> JavaRoutes(last.req.name)
          /\ ~TsGatewayAccepted(last) => JavaController(last.req) = 400
          /\ TsRoutes(last.req.name) <=> JavaRoutes(last.req.name)

(***************************************************************************)
(* The listing handlers (ListToolsRequestSchema, ListResourcesRequest-     *)
(* Schema): each returns a literal.  The server answering listings,        *)
(* resource reads and tool calls one after another.                        *)
(***************************************************************************)
ResourceList == <<"resource://config", "resource://users", "resource://help">>

ListResponse(method, out) == [ev |-> "list", method |-> method, out |-> out]

ListTools ==
    /\ last' = ListResponse("tools/list", Ok(ToolList))
    /\ UNCHANGED <<config, now, rateLimitStorage, files, dbLog, fetchLog, signLog,
                   pending, callLog>>

ListResources ==
    /\ last' = ListResponse("resources/list", Ok(ResourceList))
    /\ UNCHANGED <<config, now, rateLimitStorage, files, dbLog, fetchLog, signLog,
                   pending, callLog>>

InitList ==
    \E ra \in BOOLEAN, q \in 0..MaxQuota : InitWith(Config(ra, q, MaxSpecWindow))

NextList ==
    \/ \E req \in ServeRequests : CallTool(1, req, MaxListCalls)
    \/ \E uri \in ResourceUris : ReadResource(1, uri)
    \/ ListTools
    \/ ListResources
    \/ FsStat(1)
    \/ FsReadFile(1)
    \/ FsWriteFile(1)
    \/ FsReaddir(1)
    \/ FsUnlink(1)
    \/ DatabaseAll(1)
    \/ AxiosGet(1)
    \/ ResourceUsersAll(1)

SpecList == InitList /\ [][NextList]_vars

IsList == last.ev = "list"
IsResource == last.ev = "resource"
UriOf(r) == r.req.args.uri.s[1]
Listed(list, n) == \E i \in 1..Len(list) : list[i] = n
UnknownResourceError == McpError("InvalidRequest", "Unknown resource")

(***************************************************************************)
(* C24. No tool call, resource read or listing changes the configuration:  *)
(* config is at every step what it was, a read of resource://config        *)
(* returns every configuration field but jwtSecret, and every token is     *)
(* signed with the secret the server started with.                         *)
(***************************************************************************)
ConfigShown ==
    (IsResource /\ UriOf(last) = "resource://config") =>
       /\ last.out.ok
       /\ LET shown == last.out.content[1].text.config
          IN /\ DOMAIN shown = (DOMAIN config) \ {"jwtSecret"}
             /\ \A k \in DOMAIN shown : shown[k] = config[k]

C24_ConfigImmutable ==
    /\ [][config' = config]_vars
    /\ [](config.jwtSecret = JwtSecret)
    /\ [](\A token \in signLog : token[1].tok.key = JwtSecret)
    /\ []ConfigShown

\* resource://config has been read after a token was signed.
C24_Witness ==
    /\ IsResource /\ UriOf(last) = "resource://config" /\ last.out.ok
    /\ signLog # {}

(***************************************************************************)
(* C25. Each listing returns the same names in the same order whatever     *)
(* went before, and the listed names are the routed names: a call that     *)
(* reaches the lookup runs a tool function exactly when its name is        *)
(* listed and gets the unknown-tool error otherwise, and a resource read   *)
(* is served exactly when its URI is listed.                               *)
(***************************************************************************)
ReachedLookup(r) == r.ev = "response" /\ Len(r.trace) >= 3

C25_ListingsMatchRouting ==
    /\ (IsList /\ last.method = "tools/list") =>
          last.out = Ok(<<"calculator", "file_operations", "database_query",
                          "web_scraper", "generate_auth_token">>)
    /\ (IsList /\ last.method = "resources/list") =>
          last.out = Ok(<<"resource://config", "resource://users", "resource://help">>)
    /\ ReachedLookup(last) =>
          IF Listed(ToolList, last.req.name)
          THEN Len(last.trace) > 3 /\ last.out # Fail(NotFoundError)
          ELSE Len(last.trace) = 3 /\ last.out = Fail(NotFoundError)
    /\ IsResource =>
          (Listed(ResourceList, UriOf(last)) <=> last.out # Fail(UnknownResourceError))
    /\ \A s \in Slots : pending[s].pc = "resource.all" =>
          Listed(ResourceList, pending[s].req.args.uri.s[1])

\* The tools are listed after the last listed tool, generate_auth_token,
\* has been called and has signed a token.
C25_Witness ==
    /\ IsList /\ last.method = "tools/list"
    /\ signLog # {}
    /\ Len(callLog) = MaxListCalls

(***************************************************************************)
(* C26. A read of a resource whose URI is not registered fails with the    *)
(* error kind an unknown tool name gets (MethodNotFound), not with the     *)
(* kind of the authentication, rate-limit and domain errors.               *)
(***************************************************************************)
C26_UnknownResourceNotFound ==
    (IsResource /\ ~Listed(ResourceList, UriOf(last))) =>
       /\ ~last.out.ok
       /\ last.out.error.code = NotFoundError.code
       /\ last.out.error.code \notin
             {RateLimitError.code, AuthRequiredError.code, DomainError.code}

(***************************************************************************)
(* C29. Listings and resource reads pass through neither the rate limiter  *)
(* nor authentication: they leave the rate-limit window and the record of  *)
(* checks as they were, a listing and a read of resource://config or       *)
(* resource://help succeed, and no resource read is answered with the      *)
(* rate-limit or an authentication error, with the quota exhausted and     *)
(* with requireAuth on as well.                                            *)
(***************************************************************************)
QuotaExhausted == Len(Stored) >= Quota

C29_ListingsUnchecked ==
    /\ [][ (last'.ev \in {"list", "resource"} \/ \E s \in Slots : pending'[s].pc = "resource.all"
              /\ pending[s] = Idle)
           => (rateLimitStorage' = rateLimitStorage /\ callLog' = callLog) ]_vars
    /\ [](IsList => last.out.ok)
    /\ []((IsResource /\ UriOf(last) \in {"resource://config", "resource://help"})
             => last.out.ok)
    /\ []((IsResource /\ ~last.out.ok) =>
             last.out.error \notin {RateLimitError, AuthRequiredError,
                                    McpError("InvalidRequest", MsgAuthInvalid)})

\* resource://help has been read with requireAuth on and the quota used up,
\* right after a tool call was refused.
C29_Witness ==
    /\ IsResource /\ UriOf(last) = "resource://help" /\ last.out.ok
    /\ config.requireAuth /\ QuotaExhausted
    /\ Len(callLog) = MaxListCalls /\ ~callLog[Len(callLog)].admitted

(***************************************************************************)
(* C27. The rate-limit map has no key but "default"; the sequence stored   *)
(* under it never has more than quota entries; its timestamps are in       *)
(* non-decreasing order (the clock of the model never goes back).          *)
(***************************************************************************)
C27_StorageShape ==
    /\ DOMAIN rateLimitStorage \subseteq {"default"}
    /\ Len(Stored) <= Quota
    /\ \A i \in 1..Len(Stored) : \A j \in i..Len(Stored) : Stored[i] <= Stored[j]

\* The window is full, with MaxQuota entries taken at different times.
C27_Witness ==
    /\ Quota = MaxQuota /\ Len(Stored) = MaxQuota
    /\ Stored[1] < Stored[Len(Stored)]

(***************************************************************************)
(* C28. The step in which a call is admitted leaves the live timestamps    *)
(* and exactly one new one, the current time, whatever the call then does  *)
(* (fails authentication, names an unknown tool, fails validation, fails   *)
(* in its tool or succeeds); no step without a rate-limit check changes    *)
(* the map, and no step removes a timestamp that is still inside the       *)
(* window: at all times the live stored timestamps are as many as the      *)
(* admitted calls still inside the window.                                 *)
(***************************************************************************)
LiveAdmitted == {i \in 1..Len(callLog) : callLog[i].admitted /\ now - callLog[i].t < WindowMs}

C28_OneSlotPerAdmittedCall ==
    /\ [][ /\ (callLog' # callLog /\ callLog'[Len(callLog')].admitted) =>
                StoredIn(rateLimitStorage') = RefFilter(Stored, now) \o <<now>>
           /\ callLog' = callLog => rateLimitStorage' = rateLimitStorage
           /\ \A i \in 1..Len(Stored) :
                 now' - Stored[i] < WindowMs =>
                    \E j \in 1..Len(StoredIn(rateLimitStorage')) :
                        StoredIn(rateLimitStorage')[j] = Stored[i] ]_vars
    /\ [](Cardinality(RefLive(Stored, now)) = Cardinality(LiveAdmitted))

\* An admitted call was refused by authentication and its timestamp is in
\* the window.
C28_Witness ==
    /\ IsResponse /\ callLog[last.call].admitted
    /\ last.out = Fail(AuthRequiredError)
    /\ Len(Stored) >= 1 /\ Stored[Len(Stored)] = callLog[last.call].t
    /\ WindowMs > 0

(***************************************************************************)
(* Concurrent reads and writes of one file: the server starts with a small *)
(* file at /tmp/a, and two callers read, write, list and delete.           *)
(***************************************************************************)
RaceRequests ==
    { Request("file_operations", WriteArgs(PA, c), NoHeader) : c \in {Small, Accented, Big} }
    \cup { Request("file_operations", FileArgs(op, PA), NoHeader) : op \in {"read", "delete"} }
    \cup { Request("file_operations", FileArgs("list", PTmp), NoHeader) }

InitRace ==
    /\ config = Config(FALSE, MaxRaceCalls, MaxSpecWindow)
    /\ now = 0
    /\ rateLimitStorage = [c \in {} |-> <<>>]
    /\ files = [InitFiles EXCEPT ![PA] = File(Small)]
    /\ dbLog = {}
    /\ fetchLog = {}
    /\ signLog = {}
    /\ pending = [s \in Slots |-> Idle]
    /\ callLog = <<>>
    /\ last = Quiet

NextRace ==
    \/ \E s \in Slots, req \in RaceRequests :
          LowestIdle(s) /\ CallTool(s, req, MaxRaceCalls)
    \/ \E s \in Slots : FsStat(s)
    \/ \E s \in Slots : FsReadFile(s)
    \/ \E s \in Slots : FsWriteFile(s)
    \/ \E s \in Slots : FsReaddir(s)
    \/ \E s \in Slots : FsUnlink(s)

SpecRace == InitRace /\ [][NextRace]_vars

(***************************************************************************)
(* C30. Under concurrent calls a file read never returns content of more   *)
(* than maxFileSize bytes, also when another call writes the path between  *)
(* the read's fs.stat and its fs.readFile.                                 *)
(***************************************************************************)
C30_ReadWithinLimit ==
    (IsRead(last) /\ last.out.ok) =>
       Utf8Size(last.out.content[1].text.content) <= config.maxFileSize

====
